---- MODULE Spec2Model ----
(***************************************************************************)
(* Model of the image utilities of snap-sizer: resizeImageToSize (the      *)
(* size-targeting search) and cropImage, as callback-driven state          *)
(* machines over the browser's Image / canvas / toBlob primitives.         *)
(*                                                                         *)
(* Arithmetic.  Byte sizes, pixel dimensions and targets are integers.     *)
(* Math.sqrt, Math.floor and Math.ceil are modelled over the exact reals:  *)
(* floor(w * sqrt(a/b)) is the largest n with n*n*b <= w*w*a, and so on.   *)
(* quality is held in thousandths (900 stands for 0.9); the one product    *)
(* with an irrational factor (the close-overshoot quality update) is       *)
(* rounded down to the next thousandth.                                    *)
(*                                                                         *)
(* Utilities.  formatFileSize and parseFileSize work on strings, kept as   *)
(* sequences of characters, and on byte counts kept as exact naturals of   *)
(* any size; convertUnits works on IEEE-754 doubles, modelled bit for bit  *)
(* (53-bit mantissa, round to nearest, ties to even).                      *)
(***************************************************************************)
EXTENDS Integers, Sequences, FiniteSets, TLC

\* ---------------------------------------------------------------- bounds
\* Largest maxIterations argument explored by the single-call specification.
MaxIter == 3
\* Largest maxIterations argument explored by the two-call specification.
PairIter == 2

\* The invocations that may be alive at the same time.
Calls == {1, 2}

\* ------------------------------------------------------- program constants
InitialQuality == 900
MaxQuality == 1000
MinQuality == 500
DefaultCanvasWidth == 300
DefaultCanvasHeight == 150

\* ------------------------------------------------------------ input sets
\* Sizes (bytes) the encoder may report for a blob; a blob is never empty.
EncSizes == {10, 15, 19, 21, 22, 30, 31, 50}
\* Source files: byte size and natural pixel dimensions of the decoded image.
FileSizes == {5, 9, 20, 21, 22, 50}
ImageDims == {<<1, 1>>, <<10, 7>>}
Files == [size : FileSizes, dims : ImageDims]
TargetSizes == {0, 20}
CropAreas == {[x |-> 0, y |-> 0, width |-> 5, height |-> 5],
              [x |-> 2, y |-> 1, width |-> 4, height |-> 3]}
CanvasDims == {[width |-> 10, height |-> 10], [width |-> 5, height |-> 7]}

\* Smaller input sets for the two-call specification.
PairFiles == [size : {5, 22, 50}, dims : {<<10, 7>>}]
PairTargets == {20}
PairSizes == {15, 21, 30, 50}

SetMax(S) == CHOOSE x \in S : \A y \in S : y <= x

\* bestMatchDiff starts at Infinity: larger than every |size - target|.
Infinity == SetMax(EncSizes \cup FileSizes) + SetMax(TargetSizes) + 1

\* ------------------------------------------------------------ arithmetic
Abs(x) == IF x < 0 THEN 0 - x ELSE x
Max(a, b) == IF a >= b THEN a ELSE b
Min(a, b) == IF a <= b THEN a ELSE b

\* The largest n in lo..hi with n*n*den <= a (lo satisfies it, hi+1 does not).
RECURSIVE Bisect(_, _, _, _)
Bisect(lo, hi, a, den) ==
    IF lo >= hi THEN lo
    ELSE LET mid == (lo + hi + 1) \div 2
         IN  IF mid * mid * den <= a THEN Bisect(mid, hi, a, den)
                                     ELSE Bisect(lo, mid - 1, a, den)

\* Math.floor(w * Math.sqrt(num / den)), for w >= 0, num >= 0, den > 0.
FloorSqrtScale(w, num, den) ==
    Bisect(0, w * ((num \div den) + 1), w * w * num, den)

\* Fault variant of CeilSqrtScale: Math.floor in place of Math.ceil.
CeilSqrtScaleFloor(w, num, den) == FloorSqrtScale(w, num, den)

\* Math.ceil(w * Math.sqrt(num / den)), for w >= 0, num >= 0, den > 0.
CeilSqrtScale(w, num, den) ==
    LET f == FloorSqrtScale(w, num, den)
    IN  IF f * f * den = w * w * num THEN f ELSE f + 1

\* Math.sqrt(num / den) in thousandths, rounded down.
RatioMilli(num, den) == FloorSqrtScale(1000, num, den)

\* ------------------------------------------------------- files and blobs
\* A File built from a blob: which encode attempt produced it, and its size.
NoFile == [attempt |-> 0, size |-> 0]
NewFile(blob) == [attempt |-> blob.attempt, size |-> blob.size]

\* Promise settlement: only the first resolve/reject of a promise has effect;
\* calls counts how often resolve or reject was invoked.
Pending == [status |-> "pending", file |-> NoFile, error |-> "", calls |-> 0]
Resolve(s, f) ==
    IF s.status = "pending"
    THEN [status |-> "resolved", file |-> f, error |-> "", calls |-> 1]
    ELSE [s EXCEPT !.calls = @ + 1]
Reject(s, msg) ==
    IF s.status = "pending"
    THEN [status |-> "rejected", file |-> NoFile, error |-> msg, calls |-> 1]
    ELSE [s EXCEPT !.calls = @ + 1]

\* What drawImage put on a canvas: nothing, or a source rectangle of the
\* image given as <<x, y, w, h>>, each coordinate a fraction <<num, den>>.
Blank == <<>>
FullImage(file) ==
    <<(<<0, 1>>), (<<0, 1>>), (<<file.dims[1], 1>>), (<<file.dims[2], 1>>)>>

\* document.createElement('canvas'): default bitmap, nothing drawn.
NewCanvas ==
    [width |-> DefaultCanvasWidth, height |-> DefaultCanvasHeight, src |-> Blank]

\* The closure variables of one resizeImageToSize invocation before onload.
NoEnv ==
    [width |-> 0, height |-> 0, quality |-> 0, currentIteration |-> 0,
     currentSize |-> 0, bestMatchFile |-> NoFile, bestMatchDiff |-> 0,
     canvas |-> NewCanvas]

\* let width, height, quality, currentIteration, currentSize, bestMatch*.
InitEnv(file) ==
    [width |-> file.dims[1], height |-> file.dims[2],
     quality |-> InitialQuality, currentIteration |-> 0,
     currentSize |-> file.size, bestMatchFile |-> NoFile,
     bestMatchDiff |-> Infinity, canvas |-> NewCanvas]

\* canvas.toBlob(callback, type, quality): one encode request for the
\* current canvas, whose callback cb is queued until the blob is ready.
\* m is the part of the state one handler works on:
\* [env, inflight, reqs, settled].
ToBlob(m, cb, quality) ==
    [m EXCEPT !.reqs = Append(@, [width |-> m.env.canvas.width,
                                  height |-> m.env.canvas.height,
                                  src |-> m.env.canvas.src,
                                  quality |-> quality,
                                  callback |-> cb]),
              !.inflight = Append(@, cb)]

\* Fault variant of Adjust: the far-from-target branch scales by the bare
\* ratio, without the 0.7 floor of Math.max(ratio, 0.7).
AdjustNoFloor(targetSize, currentSize, p) ==
    IF currentSize - targetSize > 0
    THEN IF 2 * (currentSize - targetSize) > targetSize
         THEN [p EXCEPT
                !.width = FloorSqrtScale(p.width, targetSize, currentSize),
                !.height = FloorSqrtScale(p.height, targetSize, currentSize)]
         ELSE [p EXCEPT !.quality =
                  Max((p.quality * (8500 + RatioMilli(targetSize, currentSize)))
                          \div 10000,
                      MinQuality)]
    ELSE IF 25 * targetSize <= 36 * currentSize
         THEN [width |-> FloorSqrtScale(p.width, currentSize, targetSize),
               height |-> FloorSqrtScale(p.height, currentSize, targetSize),
               quality |-> Min((p.quality * 105) \div 100, MaxQuality)]
         ELSE [width |-> (5 * p.width) \div 6,
               height |-> (5 * p.height) \div 6,
               quality |-> Min((p.quality * 105) \div 100, MaxQuality)]

\* Fault variant of Adjust: the close-to-target branch scales the dimensions
\* as well as the quality.
AdjustCloseScales(targetSize, currentSize, p) ==
    IF currentSize - targetSize > 0
    THEN IF 2 * (currentSize - targetSize) > targetSize
         THEN IF 100 * targetSize >= 49 * currentSize
              THEN [p EXCEPT
                     !.width = FloorSqrtScale(p.width, targetSize, currentSize),
                     !.height = FloorSqrtScale(p.height, targetSize, currentSize)]
              ELSE [p EXCEPT !.width = (7 * p.width) \div 10,
                             !.height = (7 * p.height) \div 10]
         ELSE [width |-> FloorSqrtScale(p.width, targetSize, currentSize),
               height |-> FloorSqrtScale(p.height, targetSize, currentSize),
               quality |->
                  Max((p.quality * (8500 + RatioMilli(targetSize, currentSize)))
                          \div 10000,
                      MinQuality)]
    ELSE IF 25 * targetSize <= 36 * currentSize
         THEN [width |-> FloorSqrtScale(p.width, currentSize, targetSize),
               height |-> FloorSqrtScale(p.height, currentSize, targetSize),
               quality |-> Min((p.quality * 105) \div 100, MaxQuality)]
         ELSE [width |-> (5 * p.width) \div 6,
               height |-> (5 * p.height) \div 6,
               quality |-> Min((p.quality * 105) \div 100, MaxQuality)]

\* Fault variant of Adjust: the close-to-target branch lowers the quality
\* without the 0.5 floor of Math.max.
AdjustNoQualityFloor(targetSize, currentSize, p) ==
    IF currentSize - targetSize > 0
    THEN IF 2 * (currentSize - targetSize) > targetSize
         THEN IF 100 * targetSize >= 49 * currentSize
              THEN [p EXCEPT
                     !.width = FloorSqrtScale(p.width, targetSize, currentSize),
                     !.height = FloorSqrtScale(p.height, targetSize, currentSize)]
              ELSE [p EXCEPT !.width = (7 * p.width) \div 10,
                             !.height = (7 * p.height) \div 10]
         ELSE [p EXCEPT !.quality =
                  (p.quality * (8500 + RatioMilli(targetSize, currentSize)))
                      \div 10000]
    ELSE IF 25 * targetSize <= 36 * currentSize
         THEN [width |-> FloorSqrtScale(p.width, currentSize, targetSize),
               height |-> FloorSqrtScale(p.height, currentSize, targetSize),
               quality |-> Min((p.quality * 105) \div 100, MaxQuality)]
         ELSE [width |-> (5 * p.width) \div 6,
               height |-> (5 * p.height) \div 6,
               quality |-> Min((p.quality * 105) \div 100, MaxQuality)]

\* ------------------------------------------------------ shrink-regime policy
\* One parameter adjustment of compressStep; p = [width, height, quality].
Adjust(targetSize, currentSize, p) ==
    IF currentSize - targetSize > 0
    THEN IF 2 * (currentSize - targetSize) > targetSize
         THEN \* far from target: Math.max(ratio, 0.7) on both dimensions
              IF 100 * targetSize >= 49 * currentSize
              THEN [p EXCEPT
                     !.width = FloorSqrtScale(p.width, targetSize, currentSize),
                     !.height = FloorSqrtScale(p.height, targetSize, currentSize)]
              ELSE [p EXCEPT !.width = (7 * p.width) \div 10,
                             !.height = (7 * p.height) \div 10]
         ELSE \* close: quality * (0.95 + (ratio - 1) * 0.1), floor 0.5
              [p EXCEPT !.quality =
                  Max((p.quality * (8500 + RatioMilli(targetSize, currentSize)))
                          \div 10000,
                      MinQuality)]
    ELSE \* gone too small: divide by Math.min(ratio, 1.2), quality * 1.05
         IF 25 * targetSize <= 36 * currentSize
         THEN [width |-> FloorSqrtScale(p.width, currentSize, targetSize),
               height |-> FloorSqrtScale(p.height, currentSize, targetSize),
               quality |-> Min((p.quality * 105) \div 100, MaxQuality)]
         ELSE [width |-> (5 * p.width) \div 6,
               height |-> (5 * p.height) \div 6,
               quality |-> Min((p.quality * 105) \div 100, MaxQuality)]

\* Fault variant of WithinTolerance: the band without its end points.
WithinToleranceStrict(size, targetSize) ==
    /\ 20 * size < 21 * targetSize
    /\ 20 * size > 19 * targetSize

\* 5% tolerance band: target - tolerance <= size <= target + tolerance.
WithinTolerance(size, targetSize) ==
    /\ 20 * size <= 21 * targetSize
    /\ 20 * size >= 19 * targetSize

\* Fault variant of CompressStep: exhausting the iterations is an error.
CompressStepReject(a, m) ==
    LET e == m.env IN
    IF e.currentIteration >= a.maxIterations
    THEN [m EXCEPT !.settled = Reject(@, "Max iterations reached")]
    ELSE LET p == Adjust(a.targetSize, e.currentSize,
                         [width |-> e.width, height |-> e.height,
                          quality |-> e.quality])
             e2 == [e EXCEPT !.currentIteration = @ + 1,
                             !.width = p.width,
                             !.height = p.height,
                             !.quality = p.quality,
                             !.canvas = [width |-> p.width,
                                         height |-> p.height,
                                         src |-> FullImage(a.file)]]
         IN  ToBlob([m EXCEPT !.env = e2], "step", e2.quality)

\* Fault variant of CompressStep: the next iteration is started right after
\* toBlob is called, without waiting for its callback.
RECURSIVE CompressStepEager(_, _)
CompressStepEager(a, m) ==
    LET e == m.env IN
    IF e.currentIteration >= a.maxIterations
    THEN IF e.bestMatchFile # NoFile
         THEN [m EXCEPT !.settled = Resolve(@, e.bestMatchFile)]
         ELSE IF m.inflight = <<>> THEN ToBlob(m, "fallback", e.quality) ELSE m
    ELSE LET p == Adjust(a.targetSize, e.currentSize,
                         [width |-> e.width, height |-> e.height,
                          quality |-> e.quality])
             e2 == [e EXCEPT !.currentIteration = @ + 1,
                             !.width = p.width,
                             !.height = p.height,
                             !.quality = p.quality,
                             !.canvas = [width |-> p.width,
                                         height |-> p.height,
                                         src |-> FullImage(a.file)]]
         IN  CompressStepEager(a, ToBlob([m EXCEPT !.env = e2], "step",
                                         e2.quality))

\* compressStep(): at the iteration cap return the best match (or encode the
\* canvas as it is); otherwise adjust, resize and redraw the canvas, encode.
CompressStep(a, m) ==
    LET e == m.env IN
    IF e.currentIteration >= a.maxIterations
    THEN IF e.bestMatchFile # NoFile
         THEN [m EXCEPT !.settled = Resolve(@, e.bestMatchFile)]
         ELSE ToBlob(m, "fallback", e.quality)
    ELSE LET p == Adjust(a.targetSize, e.currentSize,
                         [width |-> e.width, height |-> e.height,
                          quality |-> e.quality])
             e2 == [e EXCEPT !.currentIteration = @ + 1,
                             !.width = p.width,
                             !.height = p.height,
                             !.quality = p.quality,
                             !.canvas = [width |-> p.width,
                                         height |-> p.height,
                                         src |-> FullImage(a.file)]]
         IN  ToBlob([m EXCEPT !.env = e2], "step", e2.quality)

\* Fault variant of StepCallback: the best match is overwritten by every
\* attempt, whether closer to the target or not.
StepCallbackLast(a, m, blob) ==
    IF blob.null
    THEN [m EXCEPT !.settled = Reject(@, "Failed to create blob")]
    ELSE LET diff == Abs(blob.size - a.targetSize)
             e1 == [m.env EXCEPT !.currentSize = blob.size,
                                 !.bestMatchDiff = diff,
                                 !.bestMatchFile = NewFile(blob)]
             m1 == [m EXCEPT !.env = e1]
         IN  IF WithinTolerance(blob.size, a.targetSize)
             THEN [m1 EXCEPT !.settled = Resolve(@, NewFile(blob))]
             ELSE CompressStep(a, m1)

\* Fault variant of StepCallback: an attempt as close as the best match
\* replaces it (<= in place of <).
StepCallbackTies(a, m, blob) ==
    IF blob.null
    THEN [m EXCEPT !.settled = Reject(@, "Failed to create blob")]
    ELSE LET diff == Abs(blob.size - a.targetSize)
             better == diff <= m.env.bestMatchDiff
             e1 == [m.env EXCEPT
                      !.currentSize = blob.size,
                      !.bestMatchDiff = IF better THEN diff ELSE @,
                      !.bestMatchFile = IF better THEN NewFile(blob) ELSE @]
             m1 == [m EXCEPT !.env = e1]
         IN  IF WithinTolerance(blob.size, a.targetSize)
             THEN [m1 EXCEPT !.settled = Resolve(@, NewFile(blob))]
             ELSE CompressStep(a, m1)

\* Fault variant of StepCallback: no best match is recorded.
StepCallbackNoBest(a, m, blob) ==
    IF blob.null
    THEN [m EXCEPT !.settled = Reject(@, "Failed to create blob")]
    ELSE LET m1 == [m EXCEPT !.env.currentSize = blob.size]
         IN  IF WithinTolerance(blob.size, a.targetSize)
             THEN [m1 EXCEPT !.settled = Resolve(@, NewFile(blob))]
             ELSE CompressStep(a, m1)

\* Fault variant of StepCallback: after resolving with an attempt inside the
\* tolerance band the search goes on.
StepCallbackGoesOn(a, m, blob) ==
    IF blob.null
    THEN [m EXCEPT !.settled = Reject(@, "Failed to create blob")]
    ELSE LET diff == Abs(blob.size - a.targetSize)
             better == diff < m.env.bestMatchDiff
             e1 == [m.env EXCEPT
                      !.currentSize = blob.size,
                      !.bestMatchDiff = IF better THEN diff ELSE @,
                      !.bestMatchFile = IF better THEN NewFile(blob) ELSE @]
             m1 == [m EXCEPT !.env = e1]
         IN  IF WithinTolerance(blob.size, a.targetSize)
             THEN CompressStep(a, [m1 EXCEPT
                                     !.settled = Resolve(@, NewFile(blob))])
             ELSE CompressStep(a, m1)

\* Fault variant of StepCallback: a null blob makes the step run again.
StepCallbackRetry(a, m, blob) ==
    IF blob.null
    THEN CompressStep(a, m)
    ELSE LET diff == Abs(blob.size - a.targetSize)
             better == diff < m.env.bestMatchDiff
             e1 == [m.env EXCEPT
                      !.currentSize = blob.size,
                      !.bestMatchDiff = IF better THEN diff ELSE @,
                      !.bestMatchFile = IF better THEN NewFile(blob) ELSE @]
             m1 == [m EXCEPT !.env = e1]
         IN  IF WithinTolerance(blob.size, a.targetSize)
             THEN [m1 EXCEPT !.settled = Resolve(@, NewFile(blob))]
             ELSE CompressStep(a, m1)

\* The toBlob callback of a compressStep iteration.
StepCallback(a, m, blob) ==
    IF blob.null
    THEN [m EXCEPT !.settled = Reject(@, "Failed to create blob")]
    ELSE LET diff == Abs(blob.size - a.targetSize)
             better == diff < m.env.bestMatchDiff
             e1 == [m.env EXCEPT
                      !.currentSize = blob.size,
                      !.bestMatchDiff = IF better THEN diff ELSE @,
                      !.bestMatchFile = IF better THEN NewFile(blob) ELSE @]
             m1 == [m EXCEPT !.env = e1]
         IN  IF WithinTolerance(blob.size, a.targetSize)
             THEN [m1 EXCEPT !.settled = Resolve(@, NewFile(blob))]
             ELSE CompressStep(a, m1)

\* The toBlob callback of the exhausted search without a best match.
FallbackCallback(a, m, blob) ==
    IF blob.null
    THEN [m EXCEPT !.settled = Reject(@, "Failed to create blob")]
    ELSE [m EXCEPT !.settled = Resolve(@, NewFile(blob))]

\* Fault variant of GrowthCallback: a growth encode that misses the target
\* falls through to the shrink search.
GrowthCallbackIterate(a, m, blob) ==
    IF blob.null
    THEN [m EXCEPT !.settled = Reject(@, "Failed to create blob")]
    ELSE IF WithinTolerance(blob.size, a.targetSize)
         THEN [m EXCEPT !.settled = Resolve(@, NewFile(blob))]
         ELSE CompressStep(a, [m EXCEPT !.env.currentSize = blob.size])

\* The toBlob callback of the growth regime.
GrowthCallback(a, m, blob) ==
    IF blob.null
    THEN [m EXCEPT !.settled = Reject(@, "Failed to create blob")]
    ELSE [m EXCEPT !.settled = Resolve(@, NewFile(blob))]

\* Growth regime: one encode of the image scaled by sqrt(target / size).
GrowthEncode(a, m) ==
    LET w == CeilSqrtScale(m.env.width, a.targetSize, a.file.size)
        h == CeilSqrtScale(m.env.height, a.targetSize, a.file.size)
        e2 == [m.env EXCEPT !.width = w, !.height = h,
                            !.quality = MaxQuality,
                            !.canvas = [width |-> w, height |-> h,
                                        src |-> FullImage(a.file)]]
    IN  ToBlob([m EXCEPT !.env = e2], "growth", e2.quality)

\* file.size <= targetSize selects the growth regime.
IsGrowth(a) == a.file.size <= a.targetSize

\* img.onload of resizeImageToSize; ctx is whether getContext('2d') gave one.
ResizeOnload(a, m, ctx) ==
    LET m0 == [m EXCEPT !.env = InitEnv(a.file)] IN
    IF IsGrowth(a)
    THEN IF ~ctx
         THEN [m0 EXCEPT !.settled = Reject(@, "Could not get canvas context")]
         ELSE GrowthEncode(a, m0)
    ELSE IF ~ctx
         THEN [m0 EXCEPT !.settled = Reject(@, "Could not get canvas context")]
         ELSE CompressStep(a, m0)

\* ------------------------------------------------------------------ crop
\* Fault variant of ScaledCropArea: the crop area is used as it is, in
\* display pixels, without scaling it to the natural image.
ScaledCropAreaUnscaled(a) ==
    <<(<<a.cropArea.x, 1>>), (<<a.cropArea.y, 1>>),
      (<<a.cropArea.width, 1>>), (<<a.cropArea.height, 1>>)>>

\* cropArea scaled to the natural image: each coordinate times
\* naturalWidth / canvasDimensions.width (or the heights), kept as fractions.
ScaledCropArea(a) ==
    <<(<<a.cropArea.x * a.file.dims[1], a.canvasDimensions.width>>),
      (<<a.cropArea.y * a.file.dims[2], a.canvasDimensions.height>>),
      (<<a.cropArea.width * a.file.dims[1], a.canvasDimensions.width>>),
      (<<a.cropArea.height * a.file.dims[2], a.canvasDimensions.height>>)>>

\* img.onload of cropImage.
CropOnload(a, m, ctx) ==
    IF ~ctx
    THEN [m EXCEPT !.settled = Reject(@, "Could not get canvas context")]
    ELSE LET e2 == [m.env EXCEPT !.canvas = [width |-> a.cropArea.width,
                                             height |-> a.cropArea.height,
                                             src |-> ScaledCropArea(a)]]
         IN  ToBlob([m EXCEPT !.env = e2], "crop", MaxQuality)

\* The toBlob callback of cropImage.
CropCallback(a, m, blob) ==
    IF blob.null
    THEN [m EXCEPT !.settled = Reject(@, "Failed to create blob")]
    ELSE [m EXCEPT !.settled = Resolve(@, NewFile(blob))]

\* ------------------------------------------------------------------ state
VARIABLES
    phase,     \* per call: "idle", "loading", "loaded" or "failed" (img.onerror)
    args,      \* per call: the arguments it was invoked with
    ctx,       \* per call: what getContext('2d') returned: "none", "ok", "null"
    env,       \* per closure environment: the let-variables and the canvas
    inflight,  \* per call: callbacks of toBlob requests not yet delivered
    reqs,      \* per call: every encode request issued so far, in order
    obs,       \* per call: every blob delivered so far, in order
    settled,   \* per call: the state of the returned promise
    calc,      \* the last call of a pure utility: its name, arguments, result
    hook,      \* the state of useImageProcessor and of its async calls
    cropper    \* the state of the ImageCropper component

vars ==
    <<phase, args, ctx, env, inflight, reqs, obs, settled, calc, hook, cropper>>

\* No pure utility has been called yet.
NoCalc == [fn |-> "none"]

NoCrop == [x |-> 0, y |-> 0, width |-> 0, height |-> 0]
NoDims == [width |-> 0, height |-> 0]
NoArgs ==
    [op |-> "none", file |-> [size |-> 0, dims |-> <<0, 0>>], targetSize |-> 0,
     maxIterations |-> 0, cropArea |-> NoCrop, canvasDimensions |-> NoDims]

\* Fault variant of Env: the variables live at module level, one copy for
\* all invocations.
EnvShared(c) == 1

\* The closure environment an invocation works on: `new Promise(...)` and
\* img.onload declare the variables afresh for every invocation.
Env(c) == c

\* The part of the state a handler of call c works on, and its write-back.
Machine(c) ==
    [env |-> env[Env(c)], inflight |-> inflight[c], reqs |-> reqs[c],
     settled |-> settled[c]]

Store(c, m) ==
    /\ env' = [env EXCEPT ![Env(c)] = m.env]
    /\ inflight' = [inflight EXCEPT ![c] = m.inflight]
    /\ reqs' = [reqs EXCEPT ![c] = m.reqs]
    /\ settled' = [settled EXCEPT ![c] = m.settled]

\* ------------------------------------------------- useImageProcessor
\* useState(null) for originalImage and processedImage, useState(false) for
\* isProcessing; no resizeImage or cropImageToSize call has been made and the
\* uploader has delivered no file (lastUpload records how the last file
\* delivered fared).
NoImage == [name |-> "", type |-> <<>>, size |-> 0, dims |-> <<0, 0>>]
NoProcessed ==
    [originalFile |-> NoImage, processedFile |-> NoFile,
     processingStatus |-> "null"]
NoHookCall == [state |-> "none", op |-> "none", originalImage |-> NoImage]
NoHook ==
    [originalImage |-> NoImage, processedImage |-> NoProcessed,
     isProcessing |-> FALSE, calls |-> [c \in Calls |-> NoHookCall],
     lastUpload |-> "none"]

\* setProcessedImage(prev => prev ? { ...prev, processingStatus } : null)
WithStatus(prev, status) ==
    IF prev = NoProcessed THEN NoProcessed
    ELSE [prev EXCEPT !.processingStatus = status]

\* Fault variant of AfterAwait: the result replaces the original image, so
\* that the next operation works on the previous result.
AfterAwaitAdopts(h, c, p) ==
    [h EXCEPT
       !.originalImage =
          IF p.status = "resolved" THEN [@ EXCEPT !.size = p.file.size] ELSE @,
       !.processedImage =
          IF p.status = "resolved"
          THEN [originalFile |-> h.calls[c].originalImage,
                processedFile |-> p.file, processingStatus |-> "completed"]
          ELSE WithStatus(@, "error"),
       !.isProcessing = FALSE,
       !.calls[c].state = "returned"]

\* What follows `await` in resizeImage and cropImageToSize once the promise
\* p of call c has settled: the result is stored, or the catch block marks
\* the error, and finally isProcessing is cleared.
AfterAwait(h, c, p) ==
    [h EXCEPT
       !.processedImage =
          IF p.status = "resolved"
          THEN [originalFile |-> h.calls[c].originalImage,
                processedFile |-> p.file, processingStatus |-> "completed"]
          ELSE WithStatus(@, "error"),
       !.isProcessing = FALSE,
       !.calls[c].state = "returned"]

\* The continuation of an awaiting call runs as soon as its promise settles,
\* before any other event is handled.
Continue(h, c, p) ==
    IF h.calls[c].state = "awaiting" /\ p.status # "pending"
    THEN AfterAwait(h, c, p)
    ELSE h

\* ------------------------------------------------------- ImageCropper
\* The useState values of a mounted ImageCropper, the canvas element as
\* created, nothing passed to onCrop yet and no resize drag made.
NoLength == [n |-> 0, d |-> 1]
NoBox ==
    [x |-> NoLength, y |-> NoLength, width |-> NoLength, height |-> NoLength]
NoCropper ==
    [image |-> NoDims, imageDimensions |-> NoDims,
     canvas |-> [width |-> DefaultCanvasWidth, height |-> DefaultCanvasHeight],
     canvasDimensions |-> [width |-> NoLength, height |-> NoLength],
     cropBox |-> NoBox,
     isDragging |-> FALSE, dragStart |-> [x |-> 0, y |-> 0],
     dragType |-> "null", resizeHandle |-> "null",
     currentCursor |-> "default",
     unit |-> "inches", width |-> <<"3">>, height |-> <<"2">>,
     dpi |-> <<"3", "0", "0">>,
     edits |-> 0, drags |-> 0, resized |-> [done |-> FALSE, cropBox |-> NoBox],
     onCrop |-> [called |-> FALSE, cropArea |-> NoBox,
                 canvasDimensions |-> [width |-> NoLength,
                                       height |-> NoLength]]]

Init ==
    /\ phase = [c \in Calls |-> "idle"]
    /\ args = [c \in Calls |-> NoArgs]
    /\ ctx = [c \in Calls |-> "none"]
    /\ env = [c \in Calls |-> NoEnv]
    /\ inflight = [c \in Calls |-> <<>>]
    /\ reqs = [c \in Calls |-> <<>>]
    /\ obs = [c \in Calls |-> <<>>]
    /\ settled = [c \in Calls |-> Pending]
    /\ calc = NoCalc
    /\ hook = NoHook
    /\ cropper = NoCropper

\* resizeImageToSize(file, targetSize, maxIterations): img.src is set.
ResizeStart(c, file, t, it) ==
    /\ phase[c] = "idle"
    /\ args' = [args EXCEPT ![c] =
                  [op |-> "resize", file |-> file, targetSize |-> t,
                   maxIterations |-> it, cropArea |-> NoCrop,
                   canvasDimensions |-> NoDims]]
    /\ phase' = [phase EXCEPT ![c] = "loading"]
    /\ UNCHANGED <<ctx, env, inflight, reqs, obs, settled>>

\* A direct call of resizeImageToSize, outside the hook.
ResizeCall(c, F, T, I) ==
    /\ \E file \in F, t \in T, it \in I : ResizeStart(c, file, t, it)
    /\ UNCHANGED <<calc, hook, cropper>>

\* cropImage(file, cropArea, canvasDimensions): img.src is set.
CropStart(c, file, ca, cd) ==
    /\ phase[c] = "idle"
    /\ args' = [args EXCEPT ![c] =
                  [op |-> "crop", file |-> file, targetSize |-> 0,
                   maxIterations |-> 0, cropArea |-> ca,
                   canvasDimensions |-> cd]]
    /\ phase' = [phase EXCEPT ![c] = "loading"]
    /\ UNCHANGED <<ctx, env, inflight, reqs, obs, settled>>

\* A direct call of cropImage, outside the hook.
CropCall(c, F, A, D) ==
    /\ \E file \in F, ca \in A, cd \in D : CropStart(c, file, ca, cd)
    /\ UNCHANGED <<calc, hook, cropper>>

\* img.onerror: the file does not decode.
ImgOnerror(c) ==
    /\ phase[c] = "loading"
    /\ phase' = [phase EXCEPT ![c] = "failed"]
    /\ settled' = [settled EXCEPT ![c] = Reject(@, "Failed to load image")]
    /\ hook' = Continue(hook, c, settled'[c])
    /\ UNCHANGED <<args, ctx, env, inflight, reqs, obs, calc, cropper>>

\* img.onload of resizeImageToSize, up to and including the first toBlob.
ResizeImgOnload(c) ==
    /\ phase[c] = "loading"
    /\ args[c].op = "resize"
    /\ \E ok \in BOOLEAN :
          /\ ctx' = [ctx EXCEPT ![c] = IF ok THEN "ok" ELSE "null"]
          /\ Store(c, ResizeOnload(args[c], Machine(c), ok))
    /\ phase' = [phase EXCEPT ![c] = "loaded"]
    /\ hook' = Continue(hook, c, settled'[c])
    /\ UNCHANGED <<args, obs, calc, cropper>>

\* img.onload of cropImage, up to and including its toBlob.
CropImgOnload(c) ==
    /\ phase[c] = "loading"
    /\ args[c].op = "crop"
    /\ \E ok \in BOOLEAN :
          /\ ctx' = [ctx EXCEPT ![c] = IF ok THEN "ok" ELSE "null"]
          /\ Store(c, CropOnload(args[c], Machine(c), ok))
    /\ phase' = [phase EXCEPT ![c] = "loaded"]
    /\ hook' = Continue(hook, c, settled'[c])
    /\ UNCHANGED <<args, obs, calc, cropper>>

\* The callback registered first is the next to run.
Dispatch(cb, a, m, blob) ==
    CASE cb = "step" -> StepCallback(a, m, blob)
      [] cb = "fallback" -> FallbackCallback(a, m, blob)
      [] cb = "growth" -> GrowthCallback(a, m, blob)
      [] cb = "crop" -> CropCallback(a, m, blob)

\* The blob of the oldest outstanding request, before it is delivered.
NextAttempt(c) == Len(reqs[c]) - Len(inflight[c]) + 1

Deliver(c, blob) ==
    LET m == [Machine(c) EXCEPT !.inflight = Tail(@)]
    IN  /\ Store(c, Dispatch(Head(inflight[c]), args[c], m, blob))
        /\ obs' = [obs EXCEPT ![c] = Append(@, blob)]
        /\ hook' = Continue(hook, c, settled'[c])
        /\ UNCHANGED <<phase, args, ctx, calc, cropper>>

\* toBlob delivers an encoded blob of some size to its callback; a canvas
\* without pixels (a dimension of 0) has no encoding.
BlobReady(c, S) ==
    /\ inflight[c] # <<>>
    /\ reqs[c][NextAttempt(c)].width > 0
    /\ reqs[c][NextAttempt(c)].height > 0
    /\ \E s \in S :
          Deliver(c, [null |-> FALSE, size |-> s, attempt |-> NextAttempt(c)])

\* toBlob delivers null: the canvas could not be encoded.
BlobNull(c) ==
    /\ inflight[c] # <<>>
    /\ Deliver(c, [null |-> TRUE, size |-> 0, attempt |-> NextAttempt(c)])

\* One invocation, all inputs.
Next ==
    \E c \in {1} :
        \/ ResizeCall(c, Files, TargetSizes, 0..MaxIter)
        \/ CropCall(c, Files, CropAreas, CanvasDims)
        \/ ImgOnerror(c)
        \/ ResizeImgOnload(c)
        \/ CropImgOnload(c)
        \/ BlobReady(c, EncSizes)
        \/ BlobNull(c)

Spec == Init /\ [][Next]_vars

\* Two invocations whose handlers interleave arbitrarily.
NextPair ==
    \E c \in Calls :
        \/ ResizeCall(c, PairFiles, PairTargets, 0..PairIter)
        \/ CropCall(c, PairFiles, {[x |-> 2, y |-> 1, width |-> 4, height |-> 3]},
                    {[width |-> 5, height |-> 7]})
        \/ ImgOnerror(c)
        \/ ResizeImgOnload(c)
        \/ CropImgOnload(c)
        \/ BlobReady(c, PairSizes)
        \/ BlobNull(c)

SpecPair == Init /\ [][NextPair]_vars

\* One invocation with many iterations: a file 25% below or 50% above the
\* target and an encoder that answers either 25% below or 50% above it.
DeepIter == 10
\* Largest number of drag steps made on the crop box.
MaxDrags == 1
\* Largest number of changes of the window and of the input fields.
MaxEdits == 2
DeepFiles == [size : {15, 30}, dims : {<<10, 7>>}]
DeepTargets == {20}
DeepSizes == {15, 30}
NextDeep ==
    \E c \in {1} :
        \/ ResizeCall(c, DeepFiles, DeepTargets, {0, DeepIter})
        \/ ImgOnerror(c)
        \/ ResizeImgOnload(c)
        \/ BlobReady(c, DeepSizes)
        \/ BlobNull(c)

SpecDeep == Init /\ [][NextDeep]_vars

\* ------------------------------------------------------- large naturals
\* Byte counts and mantissas exceed the range of 32-bit integers, so
\* they are kept as digit sequences in base 1024, least significant digit
\* first, without leading zero digits (zero is the empty sequence).
Base == 1024

RECURSIVE BigTrim(_)
BigTrim(a) ==
    IF a = <<>> THEN a
    ELSE IF a[Len(a)] = 0 THEN BigTrim(SubSeq(a, 1, Len(a) - 1)) ELSE a

RECURSIVE BigFromInt(_)
BigFromInt(n) ==
    IF n = 0 THEN <<>> ELSE <<n % Base>> \o BigFromInt(n \div Base)

\* The value of a, for a below 2^31.
RECURSIVE BigToInt(_)
BigToInt(a) == IF a = <<>> THEN 0 ELSE a[1] + Base * BigToInt(Tail(a))

\* a * k + carry, for 0 <= k, carry < 2^20.
RECURSIVE BigMulSmallC(_, _, _)
BigMulSmallC(a, k, carry) ==
    IF a = <<>> THEN BigFromInt(carry)
    ELSE LET v == a[1] * k + carry
         IN  <<v % Base>> \o BigMulSmallC(Tail(a), k, v \div Base)

BigMulSmall(a, k) == BigTrim(BigMulSmallC(a, k, 0))

RECURSIVE BigAddC(_, _, _)
BigAddC(a, b, carry) ==
    IF a = <<>> /\ b = <<>> THEN BigFromInt(carry)
    ELSE LET v == (IF a = <<>> THEN 0 ELSE a[1])
                  + (IF b = <<>> THEN 0 ELSE b[1]) + carry
         IN  <<v % Base>> \o BigAddC(IF a = <<>> THEN a ELSE Tail(a),
                                     IF b = <<>> THEN b ELSE Tail(b),
                                     v \div Base)

BigAdd(a, b) == BigAddC(a, b, 0)

\* -1, 0 or 1 as a < b, a = b, a > b.
RECURSIVE BigCmp(_, _)
BigCmp(a, b) ==
    IF Len(a) # Len(b) THEN (IF Len(a) < Len(b) THEN 0 - 1 ELSE 1)
    ELSE IF a = <<>> THEN 0
    ELSE IF a[Len(a)] # b[Len(b)]
         THEN (IF a[Len(a)] < b[Len(b)] THEN 0 - 1 ELSE 1)
         ELSE BigCmp(SubSeq(a, 1, Len(a) - 1), SubSeq(b, 1, Len(b) - 1))

BigLeq(a, b) == BigCmp(a, b) <= 0

\* a - b - borrow, for a >= b + borrow.
RECURSIVE BigSubB(_, _, _)
BigSubB(a, b, borrow) ==
    IF a = <<>> THEN <<>>
    ELSE LET v == a[1] - (IF b = <<>> THEN 0 ELSE b[1]) - borrow
         IN  <<(v + Base) % Base>>
             \o BigSubB(Tail(a), IF b = <<>> THEN b ELSE Tail(b),
                        IF v < 0 THEN 1 ELSE 0)

BigSub(a, b) == BigTrim(BigSubB(a, b, 0))

\* |a - b|.
BigDist(a, b) == IF BigLeq(a, b) THEN BigSub(b, a) ELSE BigSub(a, b)

\* a * 1024^i and floor(a / 1024^i).
BigShift(a, i) == IF a = <<>> THEN a ELSE [j \in 1..i |-> 0] \o a
BigDrop(a, i) == IF Len(a) <= i THEN <<>> ELSE SubSeq(a, i + 1, Len(a))

\* floor(a / d) for 0 < d <= 1024, most significant digit first.
RECURSIVE BigDivSmallR(_, _, _)
BigDivSmallR(a, d, rem) ==
    IF a = <<>> THEN <<>>
    ELSE LET v == rem * Base + a[Len(a)]
         IN  BigDivSmallR(SubSeq(a, 1, Len(a) - 1), d, v % d) \o <<v \div d>>

BigDivSmall(a, d) == BigTrim(BigDivSmallR(a, d, 0))

RECURSIVE Pow(_, _)
Pow(b, e) == IF e = 0 THEN 1 ELSE b * Pow(b, e - 1)

\* ---------------------------------------------------------------- strings
\* A string is the sequence of its characters.
DigitChars == <<"0", "1", "2", "3", "4", "5", "6", "7", "8", "9">>
UpperChars == <<"A", "B", "C", "D", "E", "F", "G", "H", "I", "J", "K", "L", "M", "N", "O", "P", "Q", "R", "S", "T", "U", "V", "W", "X", "Y", "Z">>
LowerChars == <<"a", "b", "c", "d", "e", "f", "g", "h", "i", "j", "k", "l", "m", "n", "o", "p", "q", "r", "s", "t", "u", "v", "w", "x", "y", "z">>

IsDigit(ch) == \E d \in 1..10 : DigitChars[d] = ch
DigitValue(ch) == (CHOOSE d \in 1..10 : DigitChars[d] = ch) - 1

\* String.prototype.includes
Includes(cs, pat) ==
    \E i \in 1..(Len(cs) - Len(pat) + 1) : SubSeq(cs, i, i + Len(pat) - 1) = pat

\* Fault variant of ToLowerCase: the string is compared as it is.
ToLowerCaseIdentity(cs) == cs

\* String.prototype.toLowerCase
ToLowerCase(cs) ==
    [i \in 1..Len(cs) |->
        IF \E u \in 1..26 : UpperChars[u] = cs[i]
        THEN LowerChars[CHOOSE u \in 1..26 : UpperChars[u] = cs[i]]
        ELSE cs[i]]

\* The decimal digits of an integer n >= 0.
RECURSIVE IntToChars(_)
IntToChars(n) ==
    IF n < 10 THEN <<DigitChars[n + 1]>>
    ELSE IntToChars(n \div 10) \o <<DigitChars[(n % 10) + 1]>>

\* f written with exactly dm digits.
RECURSIVE FracChars(_, _)
FracChars(f, dm) ==
    IF dm = 0 THEN <<>>
    ELSE FracChars(f \div 10, dm - 1) \o <<DigitChars[(f % 10) + 1]>>

RECURSIVE StripZeros(_)
StripZeros(cs) ==
    IF cs # <<>> /\ cs[Len(cs)] = "0"
    THEN StripZeros(SubSeq(cs, 1, Len(cs) - 1))
    ELSE cs

\* parseFloat(x.toFixed(dm)) + '': the number n / 10^dm (below 1e21)
\* printed without trailing zeros.
NumberToChars(n, dm) ==
    LET frac == StripZeros(FracChars(n % Pow(10, dm), dm))
    IN  IntToChars(n \div Pow(10, dm))
        \o (IF frac = <<>> THEN <<>> ELSE <<".">> \o frac)

\* ------------------------------------------------------- formatFileSize
Sizes == <<<<"B", "y", "t", "e", "s">>, <<"K", "B">>, <<"M", "B">>, <<"G", "B">>>>
\* What string concatenation makes of sizes[i] beyond the end of the array.
UndefinedChars == <<"u", "n", "d", "e", "f", "i", "n", "e", "d">>
ZeroBytesChars == <<"0", " ", "B", "y", "t", "e", "s">>

\* Math.floor(Math.log(bytes) / Math.log(k)), bytes >= 1.
UnitIndex(bytes) == Len(bytes) - 1

\* (bytes / Math.pow(k, i)).toFixed(dm) as the integer n of n / 10^dm:
\* the nearest one, the larger one of two equally near.
ToFixed(bytes, i, dm) ==
    BigToInt(BigDivSmall(
        BigDrop(BigAdd(BigMulSmall(bytes, 2 * Pow(10, dm)), BigShift(<<1>>, i)),
                i),
        2))

\* Fault variant of FormatFileSize: without the early return for 0, where
\* Math.log(0) is -Infinity and the quotient NaN.
FormatFileSizeNoZero(bytes, decimals) ==
    IF bytes = <<>> THEN <<"N", "a", "N", " ">> \o UndefinedChars
    ELSE LET dm == IF decimals < 0 THEN 0 ELSE decimals
             i == UnitIndex(bytes)
         IN  NumberToChars(ToFixed(bytes, i, dm), dm) \o <<" ">>
             \o (IF i + 1 <= Len(Sizes) THEN Sizes[i + 1] ELSE UndefinedChars)

FormatFileSize(bytes, decimals) ==
    IF bytes = <<>> THEN ZeroBytesChars
    ELSE LET dm == IF decimals < 0 THEN 0 ELSE decimals
             i == UnitIndex(bytes)
         IN  NumberToChars(ToFixed(bytes, i, dm), dm) \o <<" ">>
             \o (IF i + 1 <= Len(Sizes) THEN Sizes[i + 1] ELSE UndefinedChars)

\* --------------------------------------------------------- parseFileSize
\* Numbers read from strings: neg, num, scale, k stand for
\* (-1)^neg * num / 10^scale * 1024^k.
NaN == [nan |-> TRUE, neg |-> FALSE, num |-> 0, scale |-> 0]

RECURSIVE SkipSpaces(_)
SkipSpaces(cs) ==
    IF cs # <<>> /\ cs[1] = " " THEN SkipSpaces(Tail(cs)) ELSE cs

\* The longest prefix of digits.
RECURSIVE TakeDigits(_)
TakeDigits(cs) ==
    IF cs # <<>> /\ IsDigit(cs[1]) THEN <<cs[1]>> \o TakeDigits(Tail(cs))
    ELSE <<>>

RECURSIVE DigitsValue(_)
DigitsValue(ds) ==
    IF ds = <<>> THEN 0
    ELSE 10 * DigitsValue(SubSeq(ds, 1, Len(ds) - 1)) + DigitValue(ds[Len(ds)])

\* parseFloat(sizeStr) for strings without an exponent part: leading white
\* space, a sign, digits, a fraction; NaN when no digit was read.
ParseFloat(cs) ==
    LET t == SkipSpaces(cs)
        signed == t # <<>> /\ t[1] \in {"+", "-"}
        u == IF signed THEN Tail(t) ELSE t
        int == TakeDigits(u)
        v == SubSeq(u, Len(int) + 1, Len(u))
        frac == IF v # <<>> /\ v[1] = "." THEN TakeDigits(Tail(v)) ELSE <<>>
    IN  IF int = <<>> /\ frac = <<>> THEN NaN
        ELSE [nan |-> FALSE, neg |-> signed /\ t[1] = "-",
              num |-> DigitsValue(int \o frac), scale |-> Len(frac)]

ParseFileSize(sizeStr) ==
    LET value == ParseFloat(sizeStr) IN
    IF value.nan THEN [neg |-> FALSE, num |-> 0, scale |-> 0, k |-> 0]
    ELSE LET number == [neg |-> value.neg, num |-> value.num,
                        scale |-> value.scale, k |-> 0]
         IN  IF Includes(ToLowerCase(sizeStr), <<"k", "b">>)
             THEN [number EXCEPT !.k = 1]
             ELSE IF Includes(ToLowerCase(sizeStr), <<"m", "b">>)
             THEN [number EXCEPT !.k = 2]
             ELSE IF Includes(ToLowerCase(sizeStr), <<"g", "b">>)
             THEN [number EXCEPT !.k = 3]
             ELSE number

\* ------------------------------------------- the file-size text utilities
\* Largest power of 1024 the byte counts are multiplied by.
MaxUnitShift == 4

Mantissas == {0, 1, 5, 512, 1000, 1023, 1500, 1048575, 1234567, 2147483647}
ByteCounts ==
    {BigShift(BigFromInt(n), j) : n \in Mantissas, j \in 0..MaxUnitShift}
DecimalsArgs == {-1, 0, 1, 2, 3}

\* The strings given to parseFileSize: a numeral followed by the rest, each
\* listed with what it denotes.
Numeral(text, nan, neg, num, scale) ==
    [text |-> text, nan |-> nan, neg |-> neg, num |-> num, scale |-> scale]
Numerals ==
    { Numeral(<<"5">>, FALSE, FALSE, 5, 0),
      Numeral(<<"1", ".", "5">>, FALSE, FALSE, 15, 1),
      Numeral(<<" ", "2", "0", "0">>, FALSE, FALSE, 200, 0),
      Numeral(<<"-", "3">>, FALSE, TRUE, 3, 0),
      Numeral(<<".", "2", "5">>, FALSE, FALSE, 25, 2),
      Numeral(<<"0">>, FALSE, FALSE, 0, 0),
      Numeral(<<>>, TRUE, FALSE, 0, 0),
      Numeral(<<".">>, TRUE, FALSE, 0, 0),
      Numeral(<<"a", "b", "o", "u", "t", " ">>, TRUE, FALSE, 0, 0) }
Rest(text, k) == [text |-> text, k |-> k]
Rests ==
    { Rest(<<>>, 0),
      Rest(<<" ", "K", "B">>, 1), Rest(<<"k", "b">>, 1), Rest(<<" ", "K", "b">>, 1),
      Rest(<<" ", "M", "B">>, 2), Rest(<<"m", "B">>, 2),
      Rest(<<" ", "G", "B">>, 3), Rest(<<"g", "b">>, 3),
      Rest(<<" ", "B", "y", "t", "e", "s">>, 0), Rest(<<" ", "T", "B">>, 0),
      Rest(<<" ", "k", " ", "b">>, 0), Rest(<<"B">>, 0) }
SizeStrings == {nu.text \o r.text : nu \in Numerals, r \in Rests}

FormatCall(B, D) ==
    \E bytes \in B, decimals \in D :
        /\ calc' = [fn |-> "formatFileSize", bytes |-> bytes,
                    decimals |-> decimals,
                    out |-> FormatFileSize(bytes, decimals)]
        /\ UNCHANGED <<phase, args, ctx, env, inflight, reqs, obs, settled, hook, cropper>>

ParseCall(S) ==
    \E sizeStr \in S :
        /\ calc' = [fn |-> "parseFileSize", sizeStr |-> sizeStr,
                    out |-> ParseFileSize(sizeStr)]
        /\ UNCHANGED <<phase, args, ctx, env, inflight, reqs, obs, settled, hook, cropper>>

\* parseFileSize(formatFileSize(bytes, decimals))
RoundTripCall(B, D) ==
    \E bytes \in B, decimals \in D :
        /\ calc' = [fn |-> "roundTrip", bytes |-> bytes, decimals |-> decimals,
                    sizeStr |-> FormatFileSize(bytes, decimals),
                    out |-> ParseFileSize(FormatFileSize(bytes, decimals))]
        /\ UNCHANGED <<phase, args, ctx, env, inflight, reqs, obs, settled, hook, cropper>>

NextText ==
    \/ FormatCall(ByteCounts, DecimalsArgs)
    \/ ParseCall(SizeStrings)
    \/ RoundTripCall(ByteCounts, DecimalsArgs)

SpecText == Init /\ [][NextText]_vars

\* ---------------------------------------------------------------- numbers
\* The arithmetic of convertUnits is that of IEEE-754 doubles. A double
\* x >= 0 is [m, e], standing for m * 2^e with m of exactly MantissaBits
\* bits, and zero is [m |-> <<>>, e |-> 0]. Results are rounded to nearest,
\* ties to even. Negative numbers, subnormals, infinities and NaN do not
\* arise from the lengths and resolutions modelled.
MantissaBits == 53
\* Digits of a quotient computed before rounding (more bits than the
\* mantissa; the rest of the quotient is summarised by the sticky flag).
QuotientDigits == 6
\* Binary digits kept of a decimal literal before rounding.
LiteralBits == 70

Zero == [m |-> <<>>, e |-> 0]

\* a * 2^k and floor(a / 2^k).
BigMulPow2(a, k) == BigShift(BigMulSmall(a, Pow(2, k % 10)), k \div 10)
BigDivPow2(a, k) == BigDivSmall(BigDrop(a, k \div 10), Pow(2, k % 10))

RECURSIVE SmallBitLen(_)
SmallBitLen(n) == IF n = 0 THEN 0 ELSE 1 + SmallBitLen(n \div 2)
BitLen(a) == IF a = <<>> THEN 0 ELSE 10 * (Len(a) - 1) + SmallBitLen(a[Len(a)])
BigIsOdd(a) == a # <<>> /\ a[1] % 2 = 1

\* a * b, digit by digit of b from the i-th on.
RECURSIVE BigMulFrom(_, _, _)
BigMulFrom(a, b, i) ==
    IF i > Len(b) THEN <<>>
    ELSE BigAdd(BigShift(BigMulSmall(a, b[i]), i - 1), BigMulFrom(a, b, i + 1))
BigMul(a, b) == BigTrim(BigMulFrom(a, b, 1))

\* The largest g in lo..hi with d * g <= r (lo is one).
RECURSIVE QuotDigit(_, _, _, _)
QuotDigit(r, d, lo, hi) ==
    IF lo = hi THEN lo
    ELSE LET mid == (lo + hi + 1) \div 2
         IN  IF BigLeq(BigMulSmall(d, mid), r)
             THEN QuotDigit(r, d, mid, hi)
             ELSE QuotDigit(r, d, lo, mid - 1)

\* The first n digits of the fraction r / d (r < d), and what remains.
RECURSIVE LongDiv(_, _, _)
LongDiv(r, d, n) ==
    IF n = 0 THEN [q |-> <<>>, r |-> r]
    ELSE LET r2 == BigShift(r, 1)
             g == QuotDigit(r2, d, 0, Base - 1)
             rest == LongDiv(BigSub(r2, BigMulSmall(d, g)), d, n - 1)
         IN  [q |-> rest.q \o <<g>>, r |-> rest.r]

\* The double nearest to (M + f) * 2^e, where 0 <= f < 1 and sticky tells
\* f > 0; M has more than MantissaBits bits whenever sticky holds.
RoundToDouble(M, e, sticky) ==
    IF M = <<>> THEN Zero
    ELSE LET n == BitLen(M) IN
         IF n <= MantissaBits
         THEN [m |-> BigMulPow2(M, MantissaBits - n), e |-> e - (MantissaBits - n)]
         ELSE LET s == n - MantissaBits
                  q == BigDivPow2(M, s)
                  rem == BigSub(M, BigMulPow2(q, s))
                  c == BigCmp(rem, BigMulPow2(<<1>>, s - 1))
                  up == c > 0 \/ (c = 0 /\ (sticky \/ BigIsOdd(q)))
                  r == IF up THEN BigAdd(q, <<1>>) ELSE q
              IN  IF BitLen(r) > MantissaBits
                  THEN [m |-> BigDivPow2(r, 1), e |-> e + s + 1]
                  ELSE [m |-> r, e |-> e + s]

\* a * b and a / b (b # 0) on doubles.
Mul(a, b) == RoundToDouble(BigMul(a.m, b.m), a.e + b.e, FALSE)
Div(a, b) ==
    LET whole == BigLeq(b.m, a.m)
        qr == LongDiv(IF whole THEN BigSub(a.m, b.m) ELSE a.m, b.m,
                      QuotientDigits)
    IN  RoundToDouble(BigAdd(BigTrim(qr.q),
                             IF whole THEN BigShift(<<1>>, QuotientDigits)
                             ELSE <<>>),
                      a.e - b.e - 10 * QuotientDigits, qr.r # <<>>)

\* The double of an integer n >= 0 and of the decimal literal num / den
\* (den a power of ten up to 1000).
FromInt(n) == RoundToDouble(BigFromInt(n), 0, FALSE)
FromRatio(num, den) ==
    LET N == BigMulPow2(BigFromInt(num), LiteralBits)
        q == BigDivSmall(N, den)
    IN  RoundToDouble(q, 0 - LiteralBits, BigMulSmall(q, den) # N)

\* ----------------------------------------------------------- convertUnits
DefaultDpi == 96
CmPerInch == FromRatio(254, 100)

PixelsToInches(pixels, dpi) == Div(pixels, dpi)
InchesToPixels(inches, dpi) == Mul(inches, dpi)
PixelsToCm(pixels, dpi) == Mul(Div(pixels, dpi), CmPerInch)

\* Fault variant of CmToPixels: multiplies by 2.54 where it should divide.
CmToPixelsTimes(cm, dpi) == Mul(Mul(cm, CmPerInch), dpi)

CmToPixels(cm, dpi) == Mul(Div(cm, CmPerInch), dpi)

\* The four functions by name, and for each the one that undoes it.
Convert(name, x, dpi) ==
    CASE name = "pixelsToInches" -> PixelsToInches(x, dpi)
      [] name = "inchesToPixels" -> InchesToPixels(x, dpi)
      [] name = "pixelsToCm" -> PixelsToCm(x, dpi)
      [] name = "cmToPixels" -> CmToPixels(x, dpi)
Inverse(name) ==
    CASE name = "pixelsToInches" -> "inchesToPixels"
      [] name = "inchesToPixels" -> "pixelsToInches"
      [] name = "pixelsToCm" -> "cmToPixels"
      [] name = "cmToPixels" -> "pixelsToCm"
Conversions == {"pixelsToInches", "inchesToPixels", "pixelsToCm", "cmToPixels"}

\* Largest pixel count, and largest length in tenths of an inch or cm.
MaxPixels == 30
MaxTenths == 30
Lengths(name) ==
    IF name \in {"pixelsToInches", "pixelsToCm"}
    THEN {[num |-> n, den |-> 1] : n \in 0..MaxPixels}
    ELSE {[num |-> n, den |-> 10] : n \in 0..MaxTenths}
DpiValues == {72, DefaultDpi, 300}

\* A length and a resolution are chosen for a conversion there and back.
UnitsInput(N, D) ==
    \E name \in N, dpi \in D :
        \E len \in Lengths(name) :
            /\ calc' = [fn |-> "convertUnits", name |-> name, len |-> len,
                        dpi |-> dpi, stage |-> "input",
                        x |-> Zero, there |-> Zero, back |-> Zero]
            /\ UNCHANGED <<phase, args, ctx, env, inflight, reqs, obs, settled, hook, cropper>>

\* convertUnits[name](x, dpi)
ConvertThere ==
    /\ calc.fn = "convertUnits" /\ calc.stage = "input"
    /\ LET x == FromRatio(calc.len.num, calc.len.den)
       IN  calc' = [calc EXCEPT !.stage = "there", !.x = x,
                       !.there = Convert(calc.name, x, FromInt(calc.dpi))]
    /\ UNCHANGED <<phase, args, ctx, env, inflight, reqs, obs, settled, hook, cropper>>

\* the inverse function applied to the result
ConvertBack ==
    /\ calc.fn = "convertUnits" /\ calc.stage = "there"
    /\ calc' = [calc EXCEPT !.stage = "back",
                   !.back = Convert(Inverse(calc.name), calc.there,
                                    FromInt(calc.dpi))]
    /\ UNCHANGED <<phase, args, ctx, env, inflight, reqs, obs, settled, hook, cropper>>

NextUnits ==
    \/ UnitsInput(Conversions, DpiValues)
    \/ ConvertThere
    \/ ConvertBack

SpecUnits == Init /\ [][NextUnits]_vars

\* -------------------------------------------------------- exact numbers
\* The lengths of ImageCropper are computed exactly: a number is the
\* fraction n / d in lowest terms, d > 0. The double the code holds in its
\* place is this number rounded in the last place at every operation.
RECURSIVE Gcd(_, _)
Gcd(a, b) == IF b = 0 THEN a ELSE Gcd(b, a % b)
Ratio(n, d) ==
    LET g == Gcd(Abs(n), d) IN [n |-> n \div g, d |-> d \div g]
Num(k) == [n |-> k, d |-> 1]

\* a < b, a + b, a - b, a * b, a / b (b # 0), Math.min and Math.max.
Less(a, b) ==
    LET g == Gcd(a.d, b.d) IN a.n * (b.d \div g) < b.n * (a.d \div g)
Plus(a, b) ==
    LET g == Gcd(a.d, b.d)
    IN  Ratio(a.n * (b.d \div g) + b.n * (a.d \div g), (a.d \div g) * b.d)
Minus(a, b) == Plus(a, [n |-> 0 - b.n, d |-> b.d])
Times(a, b) ==
    LET g1 == Gcd(Abs(a.n), b.d)
        g2 == Gcd(Abs(b.n), a.d)
    IN  [n |-> (a.n \div g1) * (b.n \div g2), d |-> (a.d \div g2) * (b.d \div g1)]
Over(a, b) ==
    Times(a, IF b.n > 0 THEN [n |-> b.d, d |-> b.n]
             ELSE [n |-> 0 - b.d, d |-> 0 - b.n])
MathMin(a, b) == IF Less(b, a) THEN b ELSE a
MathMax(a, b) == IF Less(a, b) THEN b ELSE a

\* The whole part of x >= 0: what an assignment to canvas.width keeps of it.
Truncate(x) == x.n \div x.d

\* x.toFixed(2): the nearest k / 100 to |x|, the larger one of two equally
\* near, written with two decimals behind the sign.
ToFixed2(x) ==
    LET k == (200 * Abs(x.n) + x.d) \div (2 * x.d)
    IN  (IF x.n < 0 THEN <<"-">> ELSE <<>>)
        \o IntToChars(k \div 100) \o <<".">> \o FracChars(k % 100, 2)

\* parseFloat and parseInt of the text of a number input.
ParseNumber(cs) ==
    LET v == ParseFloat(cs)
    IN  Ratio(IF v.neg THEN 0 - v.num ELSE v.num, Pow(10, v.scale))
ParseInt(cs) == Num(DigitsValue(TakeDigits(SkipSpaces(cs))))

\* convertUnits on exact numbers.
ExactCmPerInch == Ratio(254, 100)
ExactPixelsToInches(pixels, dpi) == Over(pixels, dpi)
ExactInchesToPixels(inches, dpi) == Times(inches, dpi)
ExactPixelsToCm(pixels, dpi) == Times(Over(pixels, dpi), ExactCmPerInch)
ExactCmToPixels(cm, dpi) == Times(Over(cm, ExactCmPerInch), dpi)

\* ------------------------------------------ the handlers of ImageCropper
\* Half of handleSize = 12, the least width and height a resize aims at,
\* and the height the canvas is fitted to.
HalfHandle == 6
MinCropSize == 10
FitHeight == 600
DefaultContainerWidth == 600

\* updateCanvasSize(), for a decoded image and a container clientWidth wide.
UpdateCanvasSize(s, clientWidth) ==
    LET containerWidth ==
            IF clientWidth = 0 THEN DefaultContainerWidth ELSE clientWidth
        scale == MathMin(Over(Num(containerWidth), Num(s.image.width)),
                         Over(Num(FitHeight), Num(s.image.height)))
        width == Times(Num(s.image.width), scale)
        height == Times(Num(s.image.height), scale)
    IN  [s EXCEPT !.canvas = [width |-> Truncate(width),
                              height |-> Truncate(height)],
                  !.canvasDimensions = [width |-> width, height |-> height]]

\* The effect on [width, height, unit, dpi, canvasDimensions,
\* imageDimensions]: the crop box of the size entered, centred.
CropBoxEffect(s) ==
    IF s.canvasDimensions.width = Num(0) \/ s.canvasDimensions.height = Num(0)
    THEN s
    ELSE LET widthInPixels ==
                 IF s.unit = "inches"
                 THEN ExactInchesToPixels(ParseNumber(s.width), ParseInt(s.dpi))
                 ELSE ExactCmToPixels(ParseNumber(s.width), ParseInt(s.dpi))
             heightInPixels ==
                 IF s.unit = "inches"
                 THEN ExactInchesToPixels(ParseNumber(s.height), ParseInt(s.dpi))
                 ELSE ExactCmToPixels(ParseNumber(s.height), ParseInt(s.dpi))
             scale ==
                 MathMin(Over(s.canvasDimensions.width,
                              Num(s.imageDimensions.width)),
                         Over(s.canvasDimensions.height,
                              Num(s.imageDimensions.height)))
             scaledImageWidth == Times(Num(s.imageDimensions.width), scale)
             scaledImageHeight == Times(Num(s.imageDimensions.height), scale)
             displayWidthInPixels == Times(widthInPixels, scale)
             displayHeightInPixels == Times(heightInPixels, scale)
         IN  [s EXCEPT !.cropBox =
                [x |-> Over(Minus(scaledImageWidth, displayWidthInPixels),
                            Num(2)),
                 y |-> Over(Minus(scaledImageHeight, displayHeightInPixels),
                            Num(2)),
                 width |-> displayWidthInPixels,
                 height |-> displayHeightInPixels]]

\* The state after the render that follows a handler: the effect runs when
\* one of the texts it depends on has changed.
Rendered(s, t) ==
    IF <<s.width, s.height, s.unit, s.dpi>> # <<t.width, t.height, t.unit, t.dpi>>
    THEN CropBoxEffect(t)
    ELSE t

\* img.onload: a fresh imageDimensions and canvasDimensions.
ImgOnload(s, image, clientWidth) ==
    CropBoxEffect(
        UpdateCanvasSize([s EXCEPT !.image = image, !.imageDimensions = image],
                         clientWidth))

\* The window's resize listener, once the image is decoded.
HandleResize(s, clientWidth) == CropBoxEffect(UpdateCanvasSize(s, clientWidth))

\* getResizeHandle(x, y): the first handle the point is on, or "null".
IsInHandle(x, y, handleX, handleY) ==
    /\ ~Less(Num(x), Minus(handleX, Num(HalfHandle)))
    /\ ~Less(Plus(handleX, Num(HalfHandle)), Num(x))
    /\ ~Less(Num(y), Minus(handleY, Num(HalfHandle)))
    /\ ~Less(Plus(handleY, Num(HalfHandle)), Num(y))
GetResizeHandle(s, x, y) ==
    LET b == s.cropBox IN
    IF IsInHandle(x, y, b.x, b.y) THEN "topLeft"
    ELSE IF IsInHandle(x, y, Plus(b.x, b.width), b.y) THEN "topRight"
    ELSE IF IsInHandle(x, y, b.x, Plus(b.y, b.height)) THEN "bottomLeft"
    ELSE IF IsInHandle(x, y, Plus(b.x, b.width), Plus(b.y, b.height))
    THEN "bottomRight"
    ELSE "null"

\* The point is inside the crop box, borders included.
IsInCropBox(s, x, y) ==
    LET b == s.cropBox IN
    /\ ~Less(Num(x), b.x)
    /\ ~Less(Plus(b.x, b.width), Num(x))
    /\ ~Less(Num(y), b.y)
    /\ ~Less(Plus(b.y, b.height), Num(y))

\* updateCursor(x, y)
UpdateCursor(s, x, y) ==
    LET handle == GetResizeHandle(s, x, y) IN
    [s EXCEPT !.currentCursor =
        IF handle \in {"topLeft", "bottomRight"} THEN "nwse-resize"
        ELSE IF handle \in {"topRight", "bottomLeft"} THEN "nesw-resize"
        ELSE IF IsInCropBox(s, x, y) THEN "move"
        ELSE "default"]

\* handleMouseDown at the point (x, y) of the canvas.
HandleMouseDown(s, x, y) ==
    LET handle == GetResizeHandle(s, x, y) IN
    IF handle # "null"
    THEN [s EXCEPT !.resizeHandle = handle, !.dragType = "resize",
                   !.isDragging = TRUE, !.dragStart = [x |-> x, y |-> y]]
    ELSE IF IsInCropBox(s, x, y)
    THEN [s EXCEPT !.dragType = "move", !.isDragging = TRUE,
                   !.dragStart = [x |-> x, y |-> y]]
    ELSE s

\* The crop box a move drag of (dx, dy) leaves.
MoveStep(s, dx, dy) ==
    LET prev == s.cropBox IN
    [prev EXCEPT
       !.x = MathMax(Num(0), MathMin(Minus(Num(s.canvas.width), prev.width),
                                     Plus(prev.x, Num(dx)))),
       !.y = MathMax(Num(0), MathMin(Minus(Num(s.canvas.height), prev.height),
                                     Plus(prev.y, Num(dy))))]

\* The crop box the switch on resizeHandle makes for a drag of (dx, dy).
ResizeBox(cropBox, resizeHandle, dx, dy) ==
    LET xMoved == MathMin(Plus(cropBox.x, Num(dx)),
                          Minus(Plus(cropBox.x, cropBox.width), Num(MinCropSize)))
        yMoved == MathMin(Plus(cropBox.y, Num(dy)),
                          Minus(Plus(cropBox.y, cropBox.height), Num(MinCropSize)))
    IN  CASE resizeHandle = "topLeft" ->
               [x |-> xMoved, y |-> yMoved,
                width |-> Minus(cropBox.width, Num(dx)),
                height |-> Minus(cropBox.height, Num(dy))]
          [] resizeHandle = "topRight" ->
               [x |-> cropBox.x, y |-> yMoved,
                width |-> MathMax(Num(MinCropSize), Plus(cropBox.width, Num(dx))),
                height |-> Minus(cropBox.height, Num(dy))]
          [] resizeHandle = "bottomLeft" ->
               [x |-> xMoved, y |-> cropBox.y,
                width |-> Minus(cropBox.width, Num(dx)),
                height |-> MathMax(Num(MinCropSize), Plus(cropBox.height, Num(dy)))]
          [] resizeHandle = "bottomRight" ->
               [x |-> cropBox.x, y |-> cropBox.y,
                width |-> MathMax(Num(MinCropSize), Plus(cropBox.width, Num(dx))),
                height |-> MathMax(Num(MinCropSize), Plus(cropBox.height, Num(dy)))]

\* The crop box a resize drag of (dx, dy) leaves: ResizeBox kept within
\* the canvas.
ResizeStep(s, dx, dy) ==
    LET made == ResizeBox(s.cropBox, s.resizeHandle, dx, dy)
        x == MathMax(Num(0), made.x)
        y == MathMax(Num(0), made.y)
    IN  [x |-> x, y |-> y,
         width |-> MathMin(Minus(Num(s.canvas.width), x), made.width),
         height |-> MathMin(Minus(Num(s.canvas.height), y), made.height)]

\* The text of the width or height field for a side of the crop box.
SizeText(s, side) ==
    LET scale == MathMin(Over(Num(s.canvas.width), Num(s.imageDimensions.width)),
                         Over(Num(s.canvas.height), Num(s.imageDimensions.height)))
        inPixels == Over(side, scale)
    IN  IF s.unit = "inches"
        THEN ToFixed2(ExactPixelsToInches(inPixels, ParseInt(s.dpi)))
        ELSE ToFixed2(ExactPixelsToCm(inPixels, ParseInt(s.dpi)))

\* handleMouseMove at the point (x, y) of the canvas, and the render after.
HandleMouseMove(s, x, y) ==
    LET c == UpdateCursor(s, x, y)
        dx == x - s.dragStart.x
        dy == y - s.dragStart.y
    IN  IF ~s.isDragging THEN c
        ELSE IF s.dragType = "move"
        THEN [c EXCEPT !.cropBox = MoveStep(s, dx, dy),
                       !.dragStart = [x |-> x, y |-> y],
                       !.drags = @ + 1]
        ELSE IF s.dragType = "resize" /\ s.resizeHandle # "null"
        THEN LET newCropBox == ResizeStep(s, dx, dy)
             IN  Rendered(s, [c EXCEPT !.cropBox = newCropBox,
                                       !.width = SizeText(s, newCropBox.width),
                                       !.height = SizeText(s, newCropBox.height),
                                       !.dragStart = [x |-> x, y |-> y],
                                       !.drags = @ + 1,
                                       !.resized = [done |-> TRUE,
                                                    cropBox |-> newCropBox]])
        ELSE [c EXCEPT !.dragStart = [x |-> x, y |-> y]]

\* handleMouseUp and handleMouseLeave
HandleMouseUp(s) ==
    [s EXCEPT !.isDragging = FALSE, !.dragType = "null", !.resizeHandle = "null"]
HandleMouseLeave(s) == IF s.isDragging THEN HandleMouseUp(s) ELSE s

\* handleUnitChange(newUnit), and the render after.
HandleUnitChange(s, newUnit) ==
    LET convert(text) ==
            IF newUnit = "cm" /\ s.unit = "inches"
            THEN ToFixed2(Times(ParseNumber(text), ExactCmPerInch))
            ELSE IF newUnit = "inches" /\ s.unit = "cm"
            THEN ToFixed2(Over(ParseNumber(text), ExactCmPerInch))
            ELSE text
    IN  Rendered(s, [s EXCEPT !.width = convert(s.width),
                              !.height = convert(s.height),
                              !.unit = newUnit])

\* handleCrop(): what onCrop is called with.
HandleCrop(s) ==
    [s EXCEPT !.onCrop = [called |-> TRUE, cropArea |-> s.cropBox,
                          canvasDimensions |-> s.canvasDimensions]]

\* The image can be dragged on once it is decoded.
Decoded == cropper.image.width > 0

\* The cropper is followed up to its first call of onCrop.
CropperStep(s) ==
    /\ ~cropper.onCrop.called
    /\ cropper' = s
    /\ UNCHANGED <<phase, args, ctx, env, inflight, reqs, obs, settled, calc,
                   hook>>

CropperImgOnload(I, W) ==
    /\ ~Decoded
    /\ \E image \in I, clientWidth \in W :
          CropperStep(ImgOnload(cropper, image, clientWidth))

\* A change of the window or of an input field, counted.
CropperEdit(s) ==
    /\ cropper.edits < MaxEdits
    /\ CropperStep([s EXCEPT !.edits = @ + 1])

CropperResize(W) ==
    /\ Decoded
    /\ \E clientWidth \in W : CropperEdit(HandleResize(cropper, clientWidth))

\* onChange of the width, height and dpi fields.
SetWidth(T) ==
    \E text \in T :
        CropperEdit(Rendered(cropper, [cropper EXCEPT !.width = text]))
SetHeight(T) ==
    \E text \in T :
        CropperEdit(Rendered(cropper, [cropper EXCEPT !.height = text]))
SetDpi(T) ==
    \E text \in T :
        CropperEdit(Rendered(cropper, [cropper EXCEPT !.dpi = text]))

UnitChange ==
    \E newUnit \in {"inches", "cm"} :
        CropperEdit(HandleUnitChange(cropper, newUnit))

MouseDown(P) ==
    /\ Decoded
    /\ \E p \in P : CropperStep(HandleMouseDown(cropper, p[1], p[2]))
MouseMove(P) ==
    /\ Decoded
    /\ cropper.isDragging => cropper.drags < MaxDrags
    /\ \E p \in P : CropperStep(HandleMouseMove(cropper, p[1], p[2]))
MouseUp == Decoded /\ CropperStep(HandleMouseUp(cropper))
MouseLeave == Decoded /\ CropperStep(HandleMouseLeave(cropper))
Crop == CropperStep(HandleCrop(cropper))

\* One mounted cropper: an image that the default crop fits or one it does
\* not, a container of the default or a smaller width, and a mouse that
\* visits a few points of the canvas.
CropperImages == {[width |-> 1200, height |-> 800], [width |-> 800, height |-> 600]}
ClientWidths == {0}
SizeTexts == {<<"1", ".", "5">>}
DpiTexts == {<<"7", "2">>}
MousePoints == {<<75, 50>>, <<525, 50>>, <<75, 350>>, <<525, 350>>, <<300, 200>>}

NextCropper ==
    \/ CropperImgOnload(CropperImages, ClientWidths)
    \/ CropperResize(ClientWidths)
    \/ SetWidth(SizeTexts)
    \/ SetHeight(SizeTexts)
    \/ SetDpi(DpiTexts)
    \/ UnitChange
    \/ MouseDown(MousePoints)
    \/ MouseMove(MousePoints)
    \/ MouseUp
    \/ MouseLeave
    \/ Crop

SpecCropper == Init /\ [][NextCropper]_vars

\* ----------------------------------------- the handlers of useImageProcessor
\* maxIterations = 20 when resizeImageToSize is called with two arguments.
DefaultMaxIterations == 20

\* file.type.startsWith(prefix)
StartsWith(cs, prefix) ==
    Len(cs) >= Len(prefix) /\ SubSeq(cs, 1, Len(prefix)) = prefix

ImagePrefix == <<"i", "m", "a", "g", "e", "/">>

\* Fault variant of HandleImageUpload: the file is taken whatever its type.
HandleImageUploadAny(h, file) ==
    [h EXCEPT !.originalImage = file,
              !.processedImage =
                 [originalFile |-> file, processedFile |-> NoFile,
                  processingStatus |-> "idle"],
              !.lastUpload = "accepted"]

\* handleImageUpload(file)
HandleImageUpload(h, file) ==
    IF ~StartsWith(file.type, ImagePrefix)
    THEN [h EXCEPT !.lastUpload = "rejected"]
    ELSE [h EXCEPT !.originalImage = file,
                   !.processedImage =
                      [originalFile |-> file, processedFile |-> NoFile,
                       processingStatus |-> "idle"],
                   !.lastUpload = "accepted"]

\* handleDrop(e) of ImageUploader with e.dataTransfer.files = files, and
\* onImageSelect = handleImageUpload as the page passes it.
HandleDrop(h, files) ==
    IF Len(files) > 0
    THEN IF StartsWith(files[1].type, ImagePrefix)
         THEN HandleImageUpload(h, files[1])
         ELSE [h EXCEPT !.lastUpload = "rejected"]
    ELSE h

\* handleFileChange(e) of ImageUploader with e.target.files = files.
HandleFileChange(h, files) ==
    IF Len(files) > 0 THEN HandleImageUpload(h, files[1]) ELSE h

\* resetImage()
ResetImage(h) ==
    [h EXCEPT !.originalImage = NoImage, !.processedImage = NoProcessed,
              !.isProcessing = FALSE]

\* targetSizeBytes <= 0, for a result of parseFileSize.
NotPositive(v) == v.num = 0 \/ v.neg

\* The number of bytes a positive result of parseFileSize stands for; it is
\* whole for every string of TargetStrings.
Bytes(v) == (v.num * 1024 ^ v.k) \div 10 ^ v.scale

\* resizeImage(targetSizeStr), up to its return or its await: call c of the
\* hook.
ResizeImage(h, c, targetSizeStr) ==
    IF h.originalImage = NoImage
    THEN [h EXCEPT !.calls[c] = [NoHookCall EXCEPT !.state = "returned",
                                                   !.op = "resize"]]
    ELSE LET started ==
                 [h EXCEPT !.isProcessing = TRUE,
                           !.processedImage = WithStatus(@, "processing")]
         IN  IF NotPositive(ParseFileSize(targetSizeStr))
             THEN [started EXCEPT
                     !.isProcessing = FALSE,
                     !.calls[c] = [state |-> "returned", op |-> "resize",
                                   originalImage |-> h.originalImage]]
             ELSE [started EXCEPT
                     !.calls[c] = [state |-> "awaiting", op |-> "resize",
                                   originalImage |-> h.originalImage]]

\* cropImageToSize(cropArea, canvasDimensions), up to its return or its
\* await: call c of the hook.
CropImageToSize(h, c) ==
    IF h.originalImage = NoImage
    THEN [h EXCEPT !.calls[c] = [NoHookCall EXCEPT !.state = "returned",
                                                   !.op = "crop"]]
    ELSE [h EXCEPT !.isProcessing = TRUE,
                   !.processedImage = WithStatus(@, "processing"),
                   !.calls[c] = [state |-> "awaiting", op |-> "crop",
                                 originalImage |-> h.originalImage]]

\* The calls of the hook are numbered in the order they are made.
IsNextCall(c) ==
    /\ hook.calls[c].state = "none"
    /\ \A d \in Calls : d < c => hook.calls[d].state # "none"

HookDrop(L) ==
    /\ \E files \in L : hook' = HandleDrop(hook, files)
    /\ UNCHANGED <<phase, args, ctx, env, inflight, reqs, obs, settled, calc,
                   cropper>>

HookFileChange(L) ==
    /\ \E files \in L : hook' = HandleFileChange(hook, files)
    /\ UNCHANGED <<phase, args, ctx, env, inflight, reqs, obs, settled, calc,
                   cropper>>

HookReset ==
    /\ hook' = ResetImage(hook)
    /\ UNCHANGED <<phase, args, ctx, env, inflight, reqs, obs, settled, calc,
                   cropper>>

HookResizeImage(c, S) ==
    /\ IsNextCall(c)
    /\ \E targetSizeStr \in S :
          /\ hook' = ResizeImage(hook, c, targetSizeStr)
          /\ IF hook'.calls[c].state = "awaiting"
             THEN ResizeStart(c, hook.originalImage,
                              Bytes(ParseFileSize(targetSizeStr)),
                              DefaultMaxIterations)
             ELSE UNCHANGED <<phase, args, ctx, env, inflight, reqs, obs,
                              settled>>
    /\ UNCHANGED <<calc, cropper>>

HookCropImageToSize(c, A, D) ==
    /\ IsNextCall(c)
    /\ hook' = CropImageToSize(hook, c)
    /\ IF hook'.calls[c].state = "awaiting"
       THEN \E ca \in A, cd \in D : CropStart(c, hook.originalImage, ca, cd)
       ELSE UNCHANGED <<phase, args, ctx, env, inflight, reqs, obs, settled>>
    /\ UNCHANGED <<calc, cropper>>

\* The page with one or two uploads, a reset, and two calls of the hook
\* whose core operations interleave with everything else.
Uploads ==
    { [name |-> "a", type |-> <<"i", "m", "a", "g", "e", "/", "p", "n", "g">>,
       size |-> 50, dims |-> <<10, 7>>],
      [name |-> "b", type |-> <<"i", "m", "a", "g", "e", "/", "g", "i", "f">>,
       size |-> 30, dims |-> <<4, 4>>],
      [name |-> "c", type |-> <<"t", "e", "x", "t", "/", "p", "l", "a", "i", "n">>,
       size |-> 50, dims |-> <<0, 0>>],
      [name |-> "d", type |-> <<"i", "m", "a", "g", "e">>,
       size |-> 30, dims |-> <<0, 0>>] }
\* The file lists a drop or the file picker delivers: none, one file, or a
\* text file followed by an image.
UploadLists ==
    {<<>>} \cup {<<file>> : file \in Uploads}
           \cup {<<u, v>> : u \in {f \in Uploads : f.name = "c"},
                           v \in {f \in Uploads : f.name = "a"}}
TargetStrings ==
    { <<"2", "0">>, <<"0">>, <<"-", "3">>, <<"a", "b", "o", "u", "t", " ">>,
      <<"1", " ", "K", "B">> }
HookSizes == {21, 50}
HookCropAreas == {[x |-> 2, y |-> 1, width |-> 4, height |-> 3]}
HookCanvasDims == {[width |-> 5, height |-> 7]}

NextHook ==
    \/ HookDrop(UploadLists)
    \/ HookFileChange(UploadLists)
    \/ HookReset
    \/ \E c \in Calls :
          \/ HookResizeImage(c, TargetStrings)
          \/ HookCropImageToSize(c, HookCropAreas, HookCanvasDims)
          \/ ImgOnerror(c)
          \/ ResizeImgOnload(c)
          \/ CropImgOnload(c)
          \/ BlobReady(c, HookSizes)
          \/ BlobNull(c)

SpecHook == Init /\ [][NextHook]_vars

\* ---------------------------------------------------------------- claims
\* A resizeImageToSize call whose onload ran with a drawing context.
Running(c) == /\ args[c].op = "resize" /\ phase[c] = "loaded" /\ ctx[c] = "ok"
InShrink(c) == Running(c) /\ args[c].file.size > args[c].targetSize
InGrowth(c) == Running(c) /\ args[c].file.size <= args[c].targetSize

\* size within 5% of target, as the claims state it: 0.95 t <= s <= 1.05 t.
Within5Percent(s, t) == 95 * t <= 100 * s /\ 100 * s <= 105 * t

AllDelivered(c) == \A k \in 1..Len(obs[c]) : ~obs[c][k].null

\* C1: a shrink-regime call issues at most maxIterations encode attempts.
C1_AtMostMaxIterationsEncodes ==
    \A c \in Calls :
        (args[c].op = "resize" /\ args[c].file.size > args[c].targetSize)
            => Len(reqs[c]) <= args[c].maxIterations

\* C2: in the shrink regime the first attempt whose size is within 5% of the
\* target is the last attempt, and the call has resolved with that attempt's
\* own output.
C2_ConvergedAttemptIsReturned ==
    \A c \in Calls :
        InShrink(c) =>
            \A k \in 1..Len(obs[c]) :
                (~obs[c][k].null
                   /\ Within5Percent(obs[c][k].size, args[c].targetSize))
                => /\ k = Len(obs[c])
                   /\ Len(reqs[c]) = k
                   /\ inflight[c] = <<>>
                   /\ settled[c].status = "resolved"
                   /\ settled[c].file = [attempt |-> k, size |-> obs[c][k].size]

C2_Witness ==
    /\ InShrink(1)
    /\ Len(obs[1]) = 3
    /\ obs[1][3].size = 21
    /\ settled[1].file.attempt = 3
    /\ env[1].bestMatchDiff = 1

\* C3: in the shrink regime with maxIterations >= 1, when all maxIterations
\* attempts delivered a blob and none is within 5% of the target, the call
\* has resolved with an attempt whose distance to the target is minimal
\* among all attempts of the call.
C3_ExhaustionReturnsClosest ==
    \A c \in Calls :
        (/\ InShrink(c)
         /\ args[c].maxIterations >= 1
         /\ Len(obs[c]) = args[c].maxIterations
         /\ AllDelivered(c)
         /\ \A k \in 1..Len(obs[c]) :
                ~Within5Percent(obs[c][k].size, args[c].targetSize))
        => /\ settled[c].status = "resolved"
           /\ settled[c].file.attempt \in 1..Len(obs[c])
           /\ settled[c].file.size = obs[c][settled[c].file.attempt].size
           /\ \A k \in 1..Len(obs[c]) :
                 Abs(settled[c].file.size - args[c].targetSize)
                     <= Abs(obs[c][k].size - args[c].targetSize)

C3_Witness ==
    /\ InShrink(1)
    /\ args[1].targetSize = 20
    /\ args[1].maxIterations = 3
    /\ Len(obs[1]) = 3
    /\ obs[1][1].size = 50 /\ obs[1][2].size = 22 /\ obs[1][3].size = 10
    /\ settled[1].status = "resolved"
    /\ settled[1].file.attempt = 2

\* C4: in the shrink regime, while every encode attempt yields a blob the
\* call is never rejected, and once no encode is outstanding it has resolved
\* with an encoded file.
C4_NonConvergenceIsNoError ==
    \A c \in Calls :
        (InShrink(c) /\ AllDelivered(c))
        => /\ settled[c].status # "rejected"
           /\ inflight[c] = <<>> =>
                 (settled[c].status = "resolved" /\ settled[c].file.attempt >= 1)

C4_Witness ==
    /\ InShrink(1)
    /\ args[1].maxIterations = 2
    /\ Len(obs[1]) = 2
    /\ obs[1][1].size = 50 /\ obs[1][2].size = 50
    /\ settled[1].status = "resolved"

\* C5: a growth-regime call issues exactly one encode request, of width
\* ceil(naturalWidth * sqrt(target / S0)), height likewise and quality 1.0,
\* runs no iteration, and resolves with that attempt's blob whatever its size.
IsCeilOfScaled(n, w, t, s0) ==
    /\ n * n * s0 >= w * w * t
    /\ n = 0 \/ (n - 1) * (n - 1) * s0 < w * w * t

C6_RegimesAreExclusive ==
    \A c \in Calls :
        Running(c) =>
            IF args[c].file.size <= args[c].targetSize
            THEN /\ \A k \in 1..Len(reqs[c]) : reqs[c][k].callback = "growth"
                 /\ Len(reqs[c]) <= 1
                 /\ env[c].currentIteration = 0
            ELSE \A k \in 1..Len(reqs[c]) :
                     reqs[c][k].callback \in {"step", "fallback"}

C6_Witness ==
    /\ InGrowth(1)
    /\ args[1].targetSize = 20
    /\ args[1].maxIterations = 3
    /\ Len(obs[1]) = 1
    /\ obs[1][1].size = 50
    /\ inflight[1] = <<>>

\* C7: a call with targetSize <= 0 issues no encode attempt and, once its
\* image has loaded, has been rejected.
C7_NonPositiveTargetRejected ==
    \A c \in Calls :
        (args[c].op = "resize" /\ args[c].targetSize <= 0)
        => /\ reqs[c] = <<>>
           /\ phase[c] = "loaded" => settled[c].status = "rejected"

\* C8: a step in which the image fails to load, no drawing context is
\* obtained or a blob comes back null leaves the call rejected with no new
\* encode request and none outstanding; a rejected call issues no encode
\* request and stays rejected.
CodecFailureStep(c) ==
    \/ phase[c] # "failed" /\ phase'[c] = "failed"
    \/ ctx[c] # "null" /\ ctx'[c] = "null"
    \/ Len(obs'[c]) > Len(obs[c]) /\ obs'[c][Len(obs'[c])].null

C8_CodecFailureAborts ==
    [][\A c \in Calls :
         /\ CodecFailureStep(c) =>
               /\ settled'[c].status = "rejected"
               /\ reqs'[c] = reqs[c]
               /\ inflight'[c] = <<>>
         /\ settled[c].status = "rejected" =>
               /\ reqs'[c] = reqs[c]
               /\ settled'[c] = settled[c]]_vars

C8_Witness ==
    /\ InShrink(1)
    /\ args[1].maxIterations = 3
    /\ Len(obs[1]) = 2
    /\ ~obs[1][1].null /\ obs[1][2].null
    /\ settled[1].status = "rejected"
    /\ settled[1].error = "Failed to create blob"
    /\ Len(reqs[1]) = 2

\* C9: at most one encode request of a call is outstanding, every request
\* but the outstanding one has delivered its blob, and each iteration's
\* request carries the parameters computed from the previous request's
\* parameters and the size its blob was observed to have.
ParamsOf(r) == [width |-> r.width, height |-> r.height, quality |-> r.quality]

C9_EncodesAreSequential ==
    \A c \in Calls :
        /\ Len(inflight[c]) <= 1
        /\ Len(reqs[c]) = Len(obs[c]) + Len(inflight[c])
        /\ InShrink(c) =>
              \A k \in 1..Len(reqs[c]) :
                  reqs[c][k].callback = "step" =>
                      IF k = 1
                      THEN ParamsOf(reqs[c][1]) =
                               Adjust(args[c].targetSize, args[c].file.size,
                                      [width |-> args[c].file.dims[1],
                                       height |-> args[c].file.dims[2],
                                       quality |-> InitialQuality])
                      ELSE /\ ~obs[c][k - 1].null
                           /\ ParamsOf(reqs[c][k]) =
                                  Adjust(args[c].targetSize, obs[c][k - 1].size,
                                         ParamsOf(reqs[c][k - 1]))

C9_Witness ==
    /\ InShrink(1)
    /\ Len(reqs[1]) = 3
    /\ Len(obs[1]) = 2
    /\ inflight[1] = <<"step">>
    /\ reqs[1][1] # reqs[1][2]
    /\ reqs[1][2] # reqs[1][3]

\* C10: with two calls interleaved, the encode requests each call has issued
\* and its settlement are those the call produces when run alone on the
\* blobs it was delivered.
FreshMachine ==
    [env |-> NoEnv, inflight |-> <<>>, reqs |-> <<>>, settled |-> Pending]

RECURSIVE Replay(_, _, _)
Replay(a, m, blobs) ==
    IF blobs = <<>> THEN m
    ELSE Replay(a,
                Dispatch(Head(m.inflight), a,
                         [m EXCEPT !.inflight = Tail(@)], Head(blobs)),
                Tail(blobs))

SoloRun(a, ok, blobs) ==
    Replay(a,
           IF a.op = "resize" THEN ResizeOnload(a, FreshMachine, ok)
                              ELSE CropOnload(a, FreshMachine, ok),
           blobs)

C10_CallsDoNotInterfere ==
    \A c \in Calls :
        phase[c] = "loaded" =>
            LET solo == SoloRun(args[c], ctx[c] = "ok", obs[c])
            IN  /\ reqs[c] = solo.reqs
                /\ settled[c] = solo.settled

C10_Witness ==
    /\ InShrink(1) /\ InShrink(2)
    /\ Len(obs[1]) = 2 /\ Len(obs[2]) = 1
    /\ args[1].file # args[2].file
    /\ settled[1].status = "resolved"
    /\ inflight[2] # <<>>

\* A cropImage call whose onload ran with a drawing context.
Cropping(c) == /\ args[c].op = "crop" /\ phase[c] = "loaded" /\ ctx[c] = "ok"

\* The fraction f = <<num, den>> equals v * scaleNum / scaleDen.
IsScaled(f, v, scaleNum, scaleDen) == f[1] * scaleDen = v * scaleNum * f[2]

\* C11: cropImage issues exactly one encode request, at quality 1.0, on a
\* canvas of cropArea.width x cropArea.height, drawn from the crop area
\* mapped to native space: x and width times naturalWidth / displayWidth,
\* y and height times naturalHeight / displayHeight.
C11_CropIsOneMappedEncode ==
    \A c \in Calls :
        Cropping(c) =>
            /\ Len(reqs[c]) = 1
            /\ reqs[c][1].quality = 1000
            /\ reqs[c][1].width = args[c].cropArea.width
            /\ reqs[c][1].height = args[c].cropArea.height
            /\ Len(reqs[c][1].src) = 4
            /\ IsScaled(reqs[c][1].src[1], args[c].cropArea.x,
                        args[c].file.dims[1], args[c].canvasDimensions.width)
            /\ IsScaled(reqs[c][1].src[3], args[c].cropArea.width,
                        args[c].file.dims[1], args[c].canvasDimensions.width)
            /\ IsScaled(reqs[c][1].src[2], args[c].cropArea.y,
                        args[c].file.dims[2], args[c].canvasDimensions.height)
            /\ IsScaled(reqs[c][1].src[4], args[c].cropArea.height,
                        args[c].file.dims[2], args[c].canvasDimensions.height)

C11_Witness ==
    /\ Cropping(1)
    /\ args[1].file.dims = <<10, 7>>
    /\ args[1].cropArea = [x |-> 0, y |-> 0, width |-> 5, height |-> 5]
    /\ args[1].canvasDimensions = [width |-> 10, height |-> 10]
    /\ settled[1].status = "resolved"
    /\ Len(obs[1]) = 1

\* The CropRegion invariant of a crop area against its display dimensions.
ValidRegion(ca, cd) ==
    /\ 0 <= ca.x /\ 0 <= ca.y
    /\ ca.width > 0 /\ ca.height > 0
    /\ ca.x + ca.width <= cd.width
    /\ ca.y + ca.height <= cd.height

\* C12: a cropImage call whose crop region violates the CropRegion invariant
\* issues no encode request and, once its image has loaded, is rejected.
C12_InvalidRegionRejected ==
    \A c \in Calls :
        (/\ args[c].op = "crop"
         /\ ~ValidRegion(args[c].cropArea, args[c].canvasDimensions))
        => /\ reqs[c] = <<>>
           /\ phase[c] = "loaded" => settled[c].status = "rejected"

\* The size and the parameters an iteration's adjustment started from.
PrevSize(c, k) == IF k = 1 THEN args[c].file.size ELSE obs[c][k - 1].size
PrevParams(c, k) ==
    IF k = 1
    THEN [width |-> args[c].file.dims[1], height |-> args[c].file.dims[2],
          quality |-> InitialQuality]
    ELSE ParamsOf(reqs[c][k - 1])

\* The iterations (request numbers) of call c issued by compressStep.
StepRequests(c) == {k \in 1..Len(reqs[c]) : reqs[c][k].callback = "step"}

\* n = max(q * (0.95 + (sqrt(t / cs) - 1) * 0.1), 0.5) in thousandths, the
\* square root and the product each rounded down to a thousandth.
IsCloseQuality(n, q, t, cs) ==
    \E r \in 0..1000 :
        /\ r * r * cs <= 1000000 * t
        /\ (r + 1) * (r + 1) * cs > 1000000 * t
        /\ n = Max((q * (8500 + r)) \div 10000, 500)
\* C21: an iteration that starts with 0 < currentSize - target <= 0.5 * target
\* requests the width and height of the previous request, at the quality
\* max(quality * (0.95 + (ratio - 1) * 0.1), 0.5), which is not higher than
\* the previous quality.
C21_CloseOvershootTunesQualityOnly ==
    \A c \in Calls :
        InShrink(c) =>
            \A k \in StepRequests(c) :
                (/\ PrevSize(c, k) - args[c].targetSize > 0
                 /\ 2 * (PrevSize(c, k) - args[c].targetSize)
                        <= args[c].targetSize)
                => LET old == PrevParams(c, k)
                       new == reqs[c][k]
                   IN  /\ new.width = old.width
                       /\ new.height = old.height
                       /\ new.quality <= old.quality
                       /\ IsCloseQuality(new.quality, old.quality,
                                         args[c].targetSize, PrevSize(c, k))
C21_Witness ==
    /\ InShrink(1)
    /\ args[1].file = [size |-> 22, dims |-> <<10, 7>>]
    /\ args[1].targetSize = 20
    /\ Len(reqs[1]) = 2
    /\ obs[1][1].size = 30
    /\ reqs[1][1].width = 10 /\ reqs[1][1].height = 7
    /\ reqs[1][1].quality = 850
    /\ reqs[1][2].width = 10 /\ reqs[1][2].height = 7
    /\ reqs[1][2].quality = 791
\* C22: every encode request of resizeImageToSize carries a quality in
\* [0, 1], and in the shrink regime the quality variable and the quality of
\* every request are in [0.5, 1.0].
C22_QualityStaysInRange ==
    \A c \in Calls :
        args[c].op = "resize" =>
            /\ \A k \in 1..Len(reqs[c]) :
                   0 <= reqs[c][k].quality /\ reqs[c][k].quality <= 1000
            /\ InShrink(c) =>
                   /\ 500 <= env[c].quality /\ env[c].quality <= 1000
                   /\ \A k \in 1..Len(reqs[c]) :
                          /\ 500 <= reqs[c][k].quality
                          /\ reqs[c][k].quality <= 1000
C22_Witness ==
    /\ InShrink(1)
    /\ Len(reqs[1]) = 10
    /\ \A k \in 1..9 : obs[1][k].size = 30
    /\ reqs[1][8].quality > 500
    /\ reqs[1][9].quality = 500
    /\ reqs[1][10].quality = 500
\* C23: every encode request of resizeImageToSize on an image of at least
\* 1x1 pixels has width > 0 and height > 0.
C23_RequestsHavePixels ==
    \A c \in Calls :
        (/\ args[c].op = "resize"
         /\ args[c].file.dims[1] >= 1 /\ args[c].file.dims[2] >= 1)
        => \A k \in 1..Len(reqs[c]) :
               reqs[c][k].width > 0 /\ reqs[c][k].height > 0
\* C24: a call whose file size is within 5% of the target issues no encode
\* request and runs no iteration, and has resolved once its image is loaded.
C24_WithinToleranceReturnsAtOnce ==
    \A c \in Calls :
        (/\ args[c].op = "resize"
         /\ Within5Percent(args[c].file.size, args[c].targetSize))
        => /\ reqs[c] = <<>>
           /\ env[c].currentIteration = 0
           /\ Running(c) => settled[c].status = "resolved"
\* The iterations of call c whose encode delivered a blob.
Succeeded(c) == {k \in StepRequests(c) : k <= Len(obs[c]) /\ ~obs[c][k].null}
DiffOf(c, k) == Abs(obs[c][k].size - args[c].targetSize)
\* C25: in the shrink regime bestMatchDiff is the least |size - target| over
\* the successful attempts so far and bestMatchFile is the earliest attempt
\* that close; before the first successful attempt there is no best match.
C25_BestMatchIsEarliestClosest ==
    \A c \in Calls :
        InShrink(c) =>
            IF Succeeded(c) = {}
            THEN env[c].bestMatchFile = NoFile
            ELSE LET best == env[c].bestMatchFile.attempt
                 IN  /\ best \in Succeeded(c)
                     /\ env[c].bestMatchFile.size = obs[c][best].size
                     /\ env[c].bestMatchDiff = DiffOf(c, best)
                     /\ \A k \in Succeeded(c) :
                            /\ DiffOf(c, best) <= DiffOf(c, k)
                            /\ DiffOf(c, k) = DiffOf(c, best) => best <= k
C25_Witness ==
    /\ InShrink(1)
    /\ args[1].targetSize = 20
    /\ Len(obs[1]) = 2
    /\ obs[1][1].size = 10 /\ obs[1][2].size = 30
    /\ env[1].bestMatchFile = [attempt |-> 1, size |-> 10]
    /\ env[1].bestMatchDiff = 10
\* C28: in the shrink regime there is a best match once an iteration's
\* encode has succeeded, and the exhaustion fallback is requested only with
\* maxIterations <= 0, before any iteration, on the canvas as created.
C28_FallbackOnlyWithoutIterations ==
    \A c \in Calls :
        InShrink(c) =>
            /\ Succeeded(c) # {} => env[c].bestMatchFile # NoFile
            /\ \A k \in 1..Len(reqs[c]) :
                   reqs[c][k].callback = "fallback" =>
                       /\ args[c].maxIterations <= 0
                       /\ k = 1
                       /\ env[c].currentIteration = 0
                       /\ reqs[c][k].src = <<>>
                       /\ reqs[c][k].width = 300 /\ reqs[c][k].height = 150
C28_Witness ==
    /\ InShrink(1)
    /\ args[1].maxIterations = 0
    /\ Len(reqs[1]) = 1
    /\ reqs[1][1].callback = "fallback"
    /\ Len(obs[1]) = 1 /\ ~obs[1][1].null
    /\ settled[1].status = "resolved"
\* C29: resolve or reject is invoked at most once per call; a settled call
\* has no encode request outstanding and no image event pending, and a call
\* with nothing outstanding after its image event has settled.
C29_SettlesExactlyOnce ==
    \A c \in Calls :
        /\ settled[c].calls <= 1
        /\ settled[c].status # "pending" =>
               /\ settled[c].calls = 1
               /\ inflight[c] = <<>>
               /\ Len(reqs[c]) = Len(obs[c])
               /\ phase[c] \in {"loaded", "failed"}
        /\ (phase[c] \in {"loaded", "failed"} /\ inflight[c] = <<>>) =>
               settled[c].status # "pending"
C29_Witness ==
    /\ InShrink(1)
    /\ args[1].maxIterations = 2
    /\ Len(obs[1]) = 2
    /\ obs[1][1].size = 50 /\ obs[1][2].size = 30
    /\ settled[1].status = "resolved"
    /\ settled[1].calls = 1
    /\ inflight[1] = <<>>
\* |a - x| <= x * 2^-50 for doubles a and x.
Close(a, x) ==
    LET emin == Min(a.e, x.e)
        A == BigMulPow2(a.m, a.e - emin)
        X == BigMulPow2(x.m, x.e - emin)
    IN  BigLeq(BigMulPow2(BigDist(A, X), 50), X)
RoundTripDone == calc.fn = "convertUnits" /\ calc.stage = "back"

\* C14 as stated: each conversion followed by the one that undoes it gives
\* back exactly the x it started from, for every x and dpi.
C14_RoundTripIsExact == RoundTripDone => calc.back = calc.x

\* C14 amended: each conversion followed by the one that undoes it gives back
\* x within floating-point tolerance (a relative error of at most 2^-50).
C14_RoundTripWithinTolerance == RoundTripDone => Close(calc.back, calc.x)
C14_Witness ==
    /\ RoundTripDone
    /\ calc.name = "inchesToPixels" /\ calc.len = [num |-> 1, den |-> 10]
    /\ calc.dpi = DefaultDpi
    /\ calc.back # calc.x
    /\ Close(calc.back, calc.x)

\* C15: parseFileSize(formatFileSize(bytes, decimals)) is within the
\* formatter's rounding tolerance of bytes: the two differ by at most half a
\* unit of the last displayed decimal of the unit bytes falls in.
RoundTripTolerance(bytes) ==
    BigShift(<<1>>, IF bytes = <<>> THEN 0 ELSE Len(bytes) - 1)
C15_RoundTripWithinTolerance ==
    calc.fn = "roundTrip" =>
        LET dm == IF calc.decimals < 0 THEN 0 ELSE calc.decimals
            out == calc.out
        IN  /\ ~out.neg
            /\ out.scale <= dm
            /\ BigLeq(BigDist(BigMulSmall(calc.bytes, 2 * Pow(10, dm)),
                              BigShift(BigFromInt(2 * out.num
                                                  * Pow(10, dm - out.scale)),
                                       out.k)),
                      RoundTripTolerance(calc.bytes))

\* C16: parseFileSize returns 0 for a string without a leading number, and
\* otherwise the leading number times 1024, 1024^2 or 1024^3 for kb, mb or gb
\* in any case, or times 1 when the string names none of them.
C16_ParseScalesLeadingNumber ==
    calc.fn = "parseFileSize" =>
        \A nu \in Numerals, r \in Rests :
            calc.sizeStr = nu.text \o r.text =>
                IF nu.nan THEN calc.out.num = 0
                ELSE /\ calc.out.neg = nu.neg
                     /\ calc.out.num * Pow(10, nu.scale)
                            = nu.num * Pow(10, calc.out.scale)
                     /\ calc.out.k = r.k
C16_Witness ==
    /\ calc.fn = "parseFileSize"
    /\ calc.sizeStr = <<"1", ".", "5", " ", "M", "B">>
    /\ calc.out.num = 15 /\ calc.out.scale = 1 /\ calc.out.k = 2

\* C17: for every byte count >= 1 the unit formatFileSize emits is one of
\* Bytes, KB, MB, GB, and the largest of them that bytes reaches.
UnitText(cs) ==
    LET sp == CHOOSE i \in 1..Len(cs) : cs[i] = " " /\ \A j \in 1..(i - 1) : cs[j] # " "
    IN  SubSeq(cs, sp + 1, Len(cs))
C17_UnitIsLargestReached ==
    (calc.fn = "formatFileSize" /\ calc.bytes # <<>>) =>
        \E j \in 1..4 :
            /\ UnitText(calc.out) = Sizes[j]
            /\ BigLeq(BigShift(<<1>>, j - 1), calc.bytes)
            /\ j < 4 => ~BigLeq(BigShift(<<1>>, j), calc.bytes)

\* C18: formatFileSize(0, decimals) is "0 Bytes" for every decimals.
C18_ZeroIsZeroBytes ==
    (calc.fn = "formatFileSize" /\ calc.bytes = <<>>) =>
        calc.out = <<"0", " ", "B", "y", "t", "e", "s">>
C18_Witness ==
    /\ calc.fn = "formatFileSize"
    /\ calc.bytes = <<>>
    /\ calc.decimals = 3
    /\ calc.out = <<"0", " ", "B", "y", "t", "e", "s">>

\* C19: an iteration that starts with currentSize <= targetSize requests
\* dimensions not smaller than the previous ones and at most 1.2 times them.
C19_UndershootGrowsDimensions ==
    \A c \in Calls :
        InShrink(c) =>
            \A k \in StepRequests(c) :
                PrevSize(c, k) <= args[c].targetSize =>
                    /\ reqs[c][k].width >= PrevParams(c, k).width
                    /\ reqs[c][k].height >= PrevParams(c, k).height
                    /\ 10 * reqs[c][k].width <= 12 * PrevParams(c, k).width
                    /\ 10 * reqs[c][k].height <= 12 * PrevParams(c, k).height

\* n = floor(w * max(sqrt(t / cs), 0.7)).
IsFloorOfFarScaled(n, w, t, cs) ==
    IF 100 * t >= 49 * cs
    THEN n * n * cs <= w * w * t /\ (n + 1) * (n + 1) * cs > w * w * t
    ELSE 10 * n <= 7 * w /\ 10 * (n + 1) > 7 * w

InFlight(c) == hook.calls[c].state = "awaiting"

\* The caller has given the call up: the image it works on was reset or
\* replaced while the call was awaited.
Abandoned(c) == InFlight(c) /\ hook.originalImage # hook.calls[c].originalImage

\* C26: once the caller has abandoned an in-flight resizeImageToSize call,
\* the call issues no further encode request.
C26_NoEncodeAfterAbandon ==
    [][\A c \in Calls :
          (Abandoned(c) /\ hook.calls[c].op = "resize") => reqs'[c] = reqs[c]]_vars

\* C30: whenever no resizeImage or cropImageToSize call is in flight, the
\* processing status is not "processing".
C30_NoProcessingWhenIdle ==
    (\A c \in Calls : ~InFlight(c))
        => hook.processedImage.processingStatus # "processing"

\* The CropRegion invariant: the box lies within a canvas of the given
\* dimensions.
CropRegion(box, dims) ==
    /\ ~Less(box.x, Num(0))
    /\ ~Less(box.y, Num(0))
    /\ ~Less(dims.width, Plus(box.x, box.width))
    /\ ~Less(dims.height, Plus(box.y, box.height))

\* C27: the crop box the cropper holds lies within its canvas, and so does
\* every crop box passed to onCrop within the canvas dimensions passed
\* with it.
C27_CropBoxWithinCanvas ==
    /\ CropRegion(cropper.cropBox, cropper.canvasDimensions)
    /\ cropper.onCrop.called
          => CropRegion(cropper.onCrop.cropArea, cropper.onCrop.canvasDimensions)

\* C31: isProcessing is true while any resizeImage or cropImageToSize call
\* awaits its core operation, and false when every call made has returned.
C31_ProcessingWhileInFlight ==
    /\ (\E c \in Calls : InFlight(c)) => hook.isProcessing
    /\ (\A c \in Calls : ~InFlight(c)) => ~hook.isProcessing

\* C32: processedImage is non-null exactly when originalImage is, and its
\* originalFile is then originalImage.
C32_ProcessedBelongsToOriginal ==
    /\ hook.processedImage # NoProcessed <=> hook.originalImage # NoImage
    /\ hook.processedImage # NoProcessed
          => hook.processedImage.originalFile = hook.originalImage

\* C33: originalImage changes only by handleImageUpload (through the
\* uploader) and resetImage; starting or finishing a resizeImage or
\* cropImageToSize call leaves it alone, and the core operation of every call
\* is given the uploaded file that originalImage holds.
C33_OriginalImageFrame ==
    [][/\ hook'.originalImage # hook.originalImage
             => \/ hook' = ResetImage(hook)
                \/ \E files \in UploadLists :
                      \/ hook' = HandleDrop(hook, files)
                      \/ hook' = HandleFileChange(hook, files)
       /\ \A c \in Calls :
             /\ hook'.calls[c] # hook.calls[c]
                   => hook'.originalImage = hook.originalImage
             /\ (~InFlight(c) /\ hook'.calls[c].state = "awaiting")
                   => /\ args'[c].file = hook.originalImage
                      /\ hook.originalImage \in Uploads]_vars

C33_Witness ==
    /\ hook.calls[1].state = "returned"
    /\ settled[1].status = "resolved"
    /\ hook.processedImage.processingStatus = "processing"
    /\ hook.processedImage.processedFile # NoFile
    /\ InFlight(2)
    /\ hook.originalImage # NoImage
    /\ args[1].file = hook.originalImage
    /\ args[2].file = hook.originalImage

\* C34: originalImage is null or a file whose type starts with "image/", and
\* a drop or a file-picker change whose file is rejected leaves
\* originalImage, processedImage and isProcessing as they were.
C34_OnlyImagesAccepted ==
    /\ hook.originalImage # NoImage
          => StartsWith(hook.originalImage.type, ImagePrefix)
    /\ \A files \in UploadLists :
          \A after \in {HandleDrop(hook, files), HandleFileChange(hook, files)} :
             (files # <<>> /\ ~StartsWith(files[1].type, ImagePrefix))
                => /\ after.lastUpload = "rejected"
                   /\ after.originalImage = hook.originalImage
                   /\ after.processedImage = hook.processedImage
                   /\ after.isProcessing = hook.isProcessing

C34_Witness ==
    /\ hook.lastUpload = "rejected"
    /\ hook.originalImage.name = "a"
    /\ hook.processedImage.originalFile = hook.originalImage
    /\ hook.processedImage.processingStatus = "completed"

\* C35: on a canvas of at least 10 pixels each way, the crop box a resize
\* drag step sets is at least 10 pixels wide and 10 pixels high.
C35_ResizedBoxKeepsMinimum ==
    (/\ cropper.resized.done
     /\ cropper.canvas.width >= MinCropSize
     /\ cropper.canvas.height >= MinCropSize)
    => /\ ~Less(cropper.resized.cropBox.width, Num(MinCropSize))
       /\ ~Less(cropper.resized.cropBox.height, Num(MinCropSize))

====
